---------------------------- MODULE Spec2Model ----------------------------
(***************************************************************************)
(* EdgeLink: the proxy registry (ProxyManager, src/proxy-manager.js) and   *)
(* the engine supervisor (ProcessManager, src/unnamed/part_001) as one     *)
(* state machine over the Node.js event loop.                              *)
(*                                                                         *)
(* Every async method is cut at its awaits.  A macrotask (an incoming      *)
(* call, an fs completion, a timer, a child-process 'exit' event) runs     *)
(* only when the microtask queue `ready` is empty; the continuation of a   *)
(* settled await runs as one atomic step up to the next await that waits   *)
(* for a macrotask, through every return and catch block on the way.       *)
(* `alive` of an engine process means that its 'exit' event has not been   *)
(* delivered yet.                                                          *)
(***************************************************************************)
EXTENDS Integers, Sequences, FiniteSets, TLC

Names == {"a", "b", "c"}     \* proxy names of the registry
OpNames == {"a"}             \* names the callers of Spec operate on
PairNames == {"a", "b"}      \* names the callers of SpecPair operate on
MaxCalls == 2                \* calls issued in one behaviour of Spec and SpecSeq
MaxOps == 3                  \* calls issued in one behaviour of SpecOps and SpecPair
MaxTasks == 4                \* calls issued in one behaviour of SpecAll
MaxProcs == 3                \* engine processes spawned in one behaviour

GraceMs == 2000              \* startProxy: setTimeout(..., 2000)
StopTimeoutMs == 5000        \* stopProxy: setTimeout(..., 5000)
RestartPauseMs == 1000       \* restartProxy: setTimeout(resolve, 1000)

Tasks == 1..MaxTasks
Callers == 1..MaxCalls       \* the calls that Spec and SpecSeq issue
OpCallers == 1..MaxOps       \* the calls that SpecOps and SpecPair issue
Pids == 1..MaxProcs

VARIABLES
    proxies,       \* ProxyManager.proxies: name -> descriptor object
    proxiesFile,   \* the persisted JSON store (pathManager.get('proxies'))
    configs,       \* configsDir: name -> content of <name>.json
    processes,     \* ProcessManager.processes: name -> live record
    procs,         \* the engine child processes spawned so far
    calls,         \* the async calls: position and locals of each
    ready,         \* microtask queue: calls whose awaited promise settled
    timers,        \* pending setTimeout timers, in creation order
    install,       \* XRayDownloader: binDir, cacheDir and the system PATH
    dl,            \* XRayDownloader: the call in progress and what it did
    cmp,           \* XRayDownloader.compareVersions: arguments and returned value
    logs,          \* XRayLogManager.logs: the Map, as its entries in key order
    clock,         \* XRayLogManager: the system clock and the addLog calls made
    proxyConfig,   \* the descriptor object handed to the validator and generator
    validation,    \* what ConfigValidator.validateProxyConfig returned for it
    xrayConfig     \* what ConfigManager.generateConfig returned for it

registryVars == <<proxies, proxiesFile, configs, processes, procs, calls, ready, timers>>
utilVars == <<cmp, logs, clock, proxyConfig, validation, xrayConfig>>
vars == <<proxies, proxiesFile, configs, processes, procs, calls, ready, timers, install, dl,
          cmp, logs, clock, proxyConfig, validation, xrayConfig>>

---------------------------------------------------------------------------
(* Values *)

Absent == [oid |-> -1, ver |-> -1, createdAt |-> -1, updatedAt |-> -1, status |-> "absent"]
NoFile == -1
NoRecord == [process |-> 0, configPath |-> "", status |-> "none"]
NoProc == [name |-> "", alive |-> FALSE, killed |-> FALSE, sig |-> "none", cfg |-> NoFile, lis |-> <<>>]
EmptyData == [n \in Names |-> Absent]
IdleCall == [op |-> "none", name |-> "", valid |-> TRUE, stk |-> <<>>, ret |-> "", res |-> "",
             pinfo |-> Absent, wasRunning |-> FALSE, proc |-> 0, data |-> EmptyData,
             configPath |-> "", processInfo |-> NoRecord, names |-> <<>>, results |-> <<>>]

\* compareVersions not called, no log added, no descriptor validated or generated
NoCmp == [version1 |-> <<>>, version2 |-> <<>>, parts1 |-> <<>>, parts2 |-> <<>>,
          called |-> FALSE, result |-> 0, reverse |-> 0]
NoClock == [now |-> 0, history |-> <<>>, evicted |-> {}, events |-> <<>>, clears |-> 0]
NoValue == [type |-> "undefined"]
UtilIdle ==
    /\ cmp = NoCmp
    /\ logs = <<>>
    /\ clock = NoClock
    /\ proxyConfig = NoValue
    /\ validation = NoValue
    /\ xrayConfig = NoValue

\* a descriptor persisted by an earlier session and loaded by loadProxies
Loaded == [oid |-> 0, ver |-> 0, createdAt |-> 0, updatedAt |-> -1, status |-> "stopped"]

State == [proxies |-> proxies, proxiesFile |-> proxiesFile, configs |-> configs,
          processes |-> processes, procs |-> procs, calls |-> calls,
          ready |-> ready, timers |-> timers]

Commit(S) ==
    /\ proxies' = S.proxies
    /\ proxiesFile' = S.proxiesFile
    /\ configs' = S.configs
    /\ processes' = S.processes
    /\ procs' = S.procs
    /\ calls' = S.calls
    /\ ready' = S.ready
    /\ timers' = S.timers
    /\ UNCHANGED <<install, dl>>
    /\ UNCHANGED utilVars

Top(S, t) == S.calls[t].stk[Len(S.calls[t].stk)]
Front(s) == SubSeq(s, 1, Len(s) - 1)
Push(S, t, fn, pc) == [S EXCEPT !.calls[t].stk = Append(@, [fn |-> fn, pc |-> pc])]
SetPc(S, t, pc) == [S EXCEPT !.calls[t].stk[Len(S.calls[t].stk)].pc = pc]
Remove(s, x) == SelectSeq(s, LAMBDA y : y # x)
RemoveTimer(s, t) == SelectSeq(s, LAMBDA y : y.task # t)

\* versions are the numeric fields of the dotted version string
NoVersion == <<>>
Versions == {<<1, 9>>, <<1, 10>>}
MaxDl == 2                   \* downloader calls issued in one behaviour of SpecDl

\* the archive stored under a cache key: none, or what it unpacks to
Archives == {"full", "nodata", "corrupt"}
NoCache == [v \in Versions |-> "none"]

\* a complete install found in binDir by the constructor's owner
FullInstall == [exe |-> TRUE, exeVer |-> <<1, 10>>, geoip |-> TRUE, geosite |-> TRUE,
                versionFile |-> <<1, 10>>, cache |-> NoCache, pathXray |-> FALSE]

IdleDl == [op |-> "none", pc |-> "idle", force |-> FALSE, autoDownload |-> FALSE,
           checkUpdates |-> FALSE, existingPath |-> "", needsUpdate |-> FALSE,
           version |-> NoVersion,
           inDownload |-> FALSE, hit |-> FALSE, downloads |-> 0, queries |-> 0,
           progress |-> {}, extracted |-> "", res |-> "", n |-> 0]

\* the stores that loadProxies finds: empty, or holding one, two or all names
Stores ==
    {[n \in Names |-> IF n \in ns THEN Loaded ELSE Absent] :
        ns \in {{}, {"a"}, {"a", "b"}, Names}}

Init ==
    /\ install = FullInstall
    /\ dl = IdleDl
    /\ UtilIdle
    /\ proxies \in Stores
    /\ proxiesFile = proxies
    /\ configs = [n \in Names |-> IF proxies[n] = Absent THEN NoFile ELSE 0]
    /\ processes = [n \in Names |-> NoRecord]
    /\ procs = [p \in Pids |-> NoProc]
    /\ calls = [t \in Tasks |-> IdleCall]
    /\ ready = <<>>
    /\ timers = <<>>


---------------------------------------------------------------------------
(* ProcessManager (src/unnamed/part_001) *)

Range(s) == {s[i] : i \in 1..Len(s)}

FreePids(S) == {p \in Pids : S.procs[p].name = ""}
FreePid(S) == CHOOSE p \in FreePids(S) : \A q \in FreePids(S) : p <= q

\* getProcessStatus(name): pid, startTime and uptime are not modelled
GetProcessStatus(S, n) ==
    IF S.processes[n] = NoRecord
    THEN [status |-> "stopped"]
    ELSE [status |-> S.processes[n].status,
          pid |-> S.processes[n].process,
          configPath |-> S.processes[n].configPath]

\* the call is over: its result is kept, its locals are dropped
Done(S, t, v) ==
    [S EXCEPT !.calls[t] = [IdleCall EXCEPT !.op = S.calls[t].op,
                                            !.name = S.calls[t].name,
                                            !.res = v,
                                            !.results = S.calls[t].results]]

RECURSIVE Return(_, _, _)

\* startProxy: await fs.pathExists(configPath)
PMStartCall(S, t) == Push(S, t, "pmStart", "exists")

\* a catch block that clears the whole map
PMStartCatchClear(S, t, err) ==
    Return([S EXCEPT !.processes = [n \in Names |-> NoRecord]], t, err)

\* startProxy: catch (error) { this.processes.delete(name); throw error; }
PMStartCatch(S, t, err) ==
    Return([S EXCEPT !.processes[S.calls[t].name] = NoRecord], t, err)

\* startProxy: spawn, processes.set, the exit/error handlers, the grace promise.
\* ok = FALSE is a spawn failure (ENOENT): the 'error' handler deletes the
\* record set a moment before, and no 'exit' event follows.
PMStartSpawn(S, t, ok) ==
    LET n == S.calls[t].name
        cp == S.calls[t].configPath
        p == FreePid(S)
        S1 == [S EXCEPT !.timers = Append(@, [task |-> t, ms |-> GraceMs])]
    IN  IF ok
        THEN SetPc([S1 EXCEPT
                 !.procs[p] = [name |-> n, alive |-> TRUE, killed |-> FALSE,
                               sig |-> "none", cfg |-> S.configs[cp], lis |-> <<t>>],
                 !.processes[n] = [process |-> p, configPath |-> cp, status |-> "starting"],
                 !.calls[t].proc = p], t, "grace")
        ELSE SetPc([S1 EXCEPT !.processes[n] = NoRecord, !.calls[t].proc = 0], t, "grace")

\* startProxy after pathExists has answered
PMStartBody(S, t, ok) ==
    LET n == S.calls[t].name IN
    IF S.configs[S.calls[t].configPath] = NoFile THEN PMStartCatch(S, t, "ConfigMissing")
    ELSE IF S.processes[n] # NoRecord THEN PMStartCatch(S, t, "AlreadyRunning")
    ELSE PMStartSpawn(S, t, ok)

\* the test of the grace timer's callback
GraceAlive(S, n) ==
    /\ S.processes[n] # NoRecord
    /\ ~S.procs[S.processes[n].process].killed

\* a grace timer that resolves without promoting the record
GraceTimerFireNoPromote(S, t) ==
    LET n == S.calls[t].name
        alive == GraceAlive(S, n)
    IN  [S EXCEPT
            !.timers = RemoveTimer(@, t),
            !.procs = [p \in Pids |-> [S.procs[p] EXCEPT !.lis = Remove(@, t)]],
            !.ready = Append(@, t),
            !.calls[t].ret = IF alive THEN "ok" ELSE "ExitedImmediately"]

\* the callback of setTimeout(..., 2000) in startProxy
GraceTimerFire(S, t) ==
    LET n == S.calls[t].name
        alive == GraceAlive(S, n)
    IN  [S EXCEPT
            !.timers = RemoveTimer(@, t),
            !.procs = [p \in Pids |-> [S.procs[p] EXCEPT !.lis = Remove(@, t)]],
            !.ready = Append(@, t),
            !.calls[t].ret = IF alive THEN "ok" ELSE "ExitedImmediately",
            !.processes[n] = IF alive THEN [@ EXCEPT !.status = "running"] ELSE @]

\* startProxy after the grace promise settled
PMStartFinish(S, t) ==
    IF S.calls[t].ret = "ok" THEN Return(S, t, "ok")
    ELSE PMStartCatch(S, t, S.calls[t].ret)

\* subprocess.kill(signal): the signal is sent, and killed set, while the
\* handle exists, that is until 'exit' has been emitted
Kill(S, p, signal) ==
    IF S.procs[p].alive
    THEN [S EXCEPT !.procs[p].killed = TRUE, !.procs[p].sig = signal]
    ELSE S

\* a stopProxy that returns quietly when the name has no live record
PMStopCallNoThrow(S, t) ==
    LET n == S.calls[t].name
        p == S.processes[n].process
        S1 == Push(S, t, "pmStop", "wait")
    IN  IF S.processes[n] = NoRecord THEN Return(S1, t, "ok")
        ELSE [Kill(S1, p, "SIGTERM") EXCEPT
                 !.procs[p].lis = Append(@, t),
                 !.timers = Append(@, [task |-> t, ms |-> StopTimeoutMs]),
                 !.calls[t].proc = p]

\* stopProxy up to its await: get, kill('SIGTERM'), timer, exit listener
PMStopCall(S, t) ==
    LET n == S.calls[t].name
        p == S.processes[n].process
        S1 == Push(S, t, "pmStop", "wait")
    IN  IF S.processes[n] = NoRecord THEN Return(S1, t, "NotRunning")
        ELSE [Kill(S1, p, "SIGTERM") EXCEPT
                 !.procs[p].lis = Append(@, t),
                 !.timers = Append(@, [task |-> t, ms |-> StopTimeoutMs]),
                 !.calls[t].proc = p]

\* the callback of setTimeout(..., 5000) in stopProxy
StopTimerFire(S, t) ==
    LET p == S.calls[t].proc
        S1 == IF ~S.procs[p].killed THEN Kill(S, p, "SIGKILL") ELSE S
    IN  [S1 EXCEPT
            !.timers = RemoveTimer(@, t),
            !.procs[p].lis = Remove(@, t),
            !.ready = Append(@, t),
            !.calls[t].ret = "ok"]

\* stopProxy after its promise resolved: this.processes.delete(name)
PMStopFinish(S, t) ==
    Return([S EXCEPT !.processes[S.calls[t].name] = NoRecord], t, "ok")

\* the 'exit' event of process p: the handler of startProxy, then the
\* listeners of the waiting startProxy and stopProxy calls in the order they
\* were added; each clears its timer and settles its promise
EmitExit(S, p) ==
    LET n == S.procs[p].name
        lis == S.procs[p].lis
    IN  [S EXCEPT
            !.procs[p].alive = FALSE,
            !.procs[p].lis = <<>>,
            !.processes[n] = NoRecord,
            !.timers = SelectSeq(@, LAMBDA x : x.task \notin Range(lis)),
            !.ready = lis,
            !.calls = [u \in Tasks |->
                IF u \in Range(lis)
                THEN [S.calls[u] EXCEPT !.ret =
                        IF Top(S, u).fn = "pmStart" THEN "ProcessStartFailed" ELSE "ok"]
                ELSE S.calls[u]]]

---------------------------------------------------------------------------
(* ProxyManager (src/proxy-manager.js) *)

\* an assignment to a field of the descriptor object (n, oid): seen through
\* the map and through every reference a suspended startProxy holds
SetStatus(S, n, oid, st) ==
    [S EXCEPT
        !.proxies[n] = IF @ # Absent /\ @.oid = oid THEN [@ EXCEPT !.status = st] ELSE @,
        !.calls = [u \in Tasks |->
            IF S.calls[u].name = n /\ S.calls[u].pinfo # Absent /\ S.calls[u].pinfo.oid = oid
            THEN [S.calls[u] EXCEPT !.pinfo.status = st]
            ELSE S.calls[u]]]

\* saveProxies: Object.fromEntries + stringify now, the write later
SaveProxies(S, t) == SetPc([S EXCEPT !.calls[t].data = S.proxies], t, "save")

\* startProxy(name) up to its await
StartCall(S, t) ==
    LET n == S.calls[t].name
        S1 == Push(S, t, "start", "pm")
    IN  IF S.proxies[n] = Absent THEN Return(S1, t, "NotFound")
        ELSE PMStartCall([S1 EXCEPT !.calls[t].pinfo = S.proxies[n],
                                    !.calls[t].configPath = n], t)

\* startProxy after processManager.startProxy: the captured proxyInfo is
\* marked running and put back into the map
StartAfterPM(S, t, v) ==
    LET n == S.calls[t].name
        S1 == SetStatus(S, n, S.calls[t].pinfo.oid, "running")
        S2 == [S1 EXCEPT !.proxies[n] = S1.calls[t].pinfo]
    IN  IF v # "ok" THEN Return(S, t, v) ELSE SaveProxies(S2, t)

\* stopProxy(name) up to its await
StopCall(S, t) ==
    LET n == S.calls[t].name
        S1 == Push(S, t, "stop", "pm")
    IN  IF S.proxies[n] = Absent THEN Return(S1, t, "NotFound")
        ELSE PMStopCall(S1, t)

\* stopProxy after processManager.stopProxy: proxies.get(name) may by now be
\* undefined, and the assignment to its status then throws
StopAfterPM(S, t, v) ==
    LET n == S.calls[t].name IN
    IF v # "ok" THEN Return(S, t, v)
    ELSE IF S.proxies[n] = Absent THEN Return(S, t, "TypeError")
    ELSE SaveProxies(SetStatus(S, n, S.proxies[n].oid, "stopped"), t)

\* generateConfig (total on validated descriptors) and saveConfig up to its write
SaveConfig(S, t) == SetPc(S, t, "saveConfig")

\* updateProxy(name, config) up to its first await
UpdateCall(S, t) ==
    LET n == S.calls[t].name
        S1 == Push(S, t, "update", "stop")
        was == GetProcessStatus(S, n).status = "running"
    IN  IF S.proxies[n] = Absent THEN Return(S1, t, "NotFound")
        ELSE IF ~S.calls[t].valid THEN Return(S1, t, "ValidationError")
        ELSE IF was THEN StopCall([S1 EXCEPT !.calls[t].wasRunning = TRUE], t)
        ELSE SaveConfig(S1, t)

UpdateAfterStop(S, t, v) ==
    IF v # "ok" THEN Return(S, t, v) ELSE SaveConfig(S, t)

\* updateProxy after saveConfig: the new descriptor object replaces the old
UpdateStore(S, t) ==
    LET n == S.calls[t].name IN
    IF S.proxies[n] = Absent THEN Return(S, t, "TypeError")
    ELSE SaveProxies([S EXCEPT !.proxies[n] =
            [oid |-> t, ver |-> t, createdAt |-> S.proxies[n].createdAt,
             updatedAt |-> t, status |-> "stopped"]], t)

\* updateProxy after saveProxies
UpdateAfterSave(S, t) ==
    IF S.calls[t].wasRunning THEN StartCall(SetPc(S, t, "start"), t)
    ELSE Return(S, t, "ok")

UpdateAfterStart(S, t, v) == Return(S, t, v)

\* an addProxy without the proxies.has(name) test
AddCallNoCheck(S, t) ==
    LET S1 == Push(S, t, "add", "saveConfig")
    IN  IF ~S.calls[t].valid THEN Return(S1, t, "ValidationError")
        ELSE S1

\* addProxy(name, config) up to its await
AddCall(S, t) ==
    LET n == S.calls[t].name
        S1 == Push(S, t, "add", "saveConfig")
    IN  IF ~S.calls[t].valid THEN Return(S1, t, "ValidationError")
        ELSE IF S.proxies[n] # Absent THEN Return(S1, t, "Duplicate")
        ELSE S1

\* an addProxy that lets a status field of the input survive
AddStoreRunning(S, t) ==
    SaveProxies([S EXCEPT !.proxies[S.calls[t].name] =
        [oid |-> t, ver |-> t, createdAt |-> t, updatedAt |-> -1, status |-> "running"]], t)

\* addProxy after saveConfig
AddStore(S, t) ==
    SaveProxies([S EXCEPT !.proxies[S.calls[t].name] =
        [oid |-> t, ver |-> t, createdAt |-> t, updatedAt |-> -1, status |-> "stopped"]], t)

\* deleteConfig up to its fs.remove
DeleteConfig(S, t) == SetPc(S, t, "remove")

\* deleteProxy(name) up to its first await
DeleteCall(S, t) ==
    LET n == S.calls[t].name
        S1 == Push(S, t, "delete", "stop")
    IN  IF S.proxies[n] = Absent THEN Return(S1, t, "NotFound")
        ELSE IF GetProcessStatus(S, n).status = "running" THEN StopCall(S1, t)
        ELSE DeleteConfig(S1, t)

DeleteAfterStop(S, t, v) ==
    IF v # "ok" THEN Return(S, t, v) ELSE DeleteConfig(S, t)

\* deleteProxy after deleteConfig
DeleteStore(S, t) ==
    SaveProxies([S EXCEPT !.proxies[S.calls[t].name] = Absent], t)

\* ProcessManager.restartProxy(name) up to its first await; processInfo and
\* configPath are read from the live record now
PMRestartCall(S, t) ==
    LET n == S.calls[t].name
        S1 == Push(S, t, "pmRestart", "stop")
    IN  IF S.processes[n] = NoRecord THEN Return(S1, t, "NotRunning")
        ELSE PMStopCall([S1 EXCEPT !.calls[t].processInfo = S.processes[n],
                                   !.calls[t].configPath = S.processes[n].configPath], t)

\* restartProxy after stopProxy: setTimeout(resolve, 1000)
PMRestartAfterStop(S, t, v) ==
    IF v # "ok" THEN Return(S, t, v)
    ELSE [SetPc(S, t, "pause") EXCEPT
             !.timers = Append(@, [task |-> t, ms |-> RestartPauseMs])]

\* the pause is over: await this.startProxy(name, configPath)
PauseTimerFire(S, t) ==
    PMStartCall(SetPc([S EXCEPT !.timers = RemoveTimer(@, t)], t, "start"), t)

PMRestartAfterStart(S, t, v) == Return(S, t, v)

\* ProxyManager.restartProxy(name): no lookup of the name before the call
RestartCall(S, t) == PMRestartCall(Push(S, t, "restart", "pm"), t)

\* restartProxy after processManager.restartProxy
RestartAfterPM(S, t, v) ==
    LET n == S.calls[t].name IN
    IF v # "ok" THEN Return(S, t, v)
    ELSE IF S.proxies[n] = Absent THEN Return(S, t, "TypeError")
    ELSE SaveProxies(SetStatus(S, n, S.proxies[n].oid, "running"), t)

\* Array.from(this.processes.keys()): a Map lists its keys in insertion
\* order, which is the order in which the recorded processes were spawned
RECURSIVE KeysFrom(_, _)
KeysFrom(S, p) ==
    IF p > MaxProcs THEN <<>>
    ELSE LET ns == {n \in Names : S.processes[n].process = p}
         IN  (IF ns = {} THEN <<>> ELSE <<CHOOSE n \in ns : TRUE>>) \o KeysFrom(S, p + 1)

\* the for loop of ProcessManager.stopAllProxies at its next name
PMStopAllLoop(S, t) ==
    LET names == S.calls[t].names
        i == Len(S.calls[t].results) + 1
    IN  IF i > Len(names) THEN Return(S, t, "ok")
        ELSE PMStopCall([S EXCEPT !.calls[t].name = names[i]], t)

\* a loop without the try/catch: the first failure ends the batch
PMStopAllAbort(S, t, v) ==
    IF v # "ok" THEN Return(S, t, v)
    ELSE PMStopAllLoop([S EXCEPT !.calls[t].results =
        Append(@, [name |-> S.calls[t].name, success |-> TRUE, error |-> ""])], t)

\* stopProxy returned or threw inside the loop: results.push(...)
PMStopAllAfterStop(S, t, v) ==
    PMStopAllLoop([S EXCEPT !.calls[t].results =
        Append(@, [name |-> S.calls[t].name, success |-> v = "ok",
                   error |-> IF v = "ok" THEN "" ELSE v])], t)

\* ProcessManager.stopAllProxies() up to its first await
PMStopAllCall(S, t) ==
    PMStopAllLoop([Push(S, t, "pmStopAll", "loop") EXCEPT
                      !.calls[t].names = KeysFrom(S, 1)], t)

\* ProxyManager.stopAllProxies()
StopAllCall(S, t) == PMStopAllCall(Push(S, t, "stopAll", "pm"), t)

\* stopAllProxies after the supervisor's: every descriptor object in the map
\* is marked stopped, then saveProxies
StopAllAfterPM(S, t, v) ==
    IF v # "ok" THEN Return(S, t, v)
    ELSE SaveProxies([S EXCEPT
        !.proxies = [n \in Names |->
            IF @[n] # Absent THEN [@[n] EXCEPT !.status = "stopped"] ELSE @[n]],
        !.calls = [u \in Tasks |->
            LET c == S.calls[u] IN
            IF c.pinfo # Absent /\ c.name \in Names /\ S.proxies[c.name] # Absent
                 /\ S.proxies[c.name].oid = c.pinfo.oid
            THEN [c EXCEPT !.pinfo.status = "stopped"]
            ELSE c]], t)

\* the async function on top of the stack returns or throws v: its caller
\* goes on after its await
Return(S, t, v) ==
    LET stk == S.calls[t].stk
        S1 == [S EXCEPT !.calls[t].stk = Front(stk)]
        f == Top(S1, t)
    IN  IF Len(stk) <= 1 THEN Done(S, t, v)
        ELSE CASE f.fn = "start" -> StartAfterPM(S1, t, v)
               [] f.fn = "stop" -> StopAfterPM(S1, t, v)
               [] f.fn = "update" /\ f.pc = "stop" -> UpdateAfterStop(S1, t, v)
               [] f.fn = "update" /\ f.pc = "start" -> UpdateAfterStart(S1, t, v)
               [] f.fn = "delete" -> DeleteAfterStop(S1, t, v)
               [] f.fn = "pmRestart" /\ f.pc = "stop" -> PMRestartAfterStop(S1, t, v)
               [] f.fn = "pmRestart" /\ f.pc = "start" -> PMRestartAfterStart(S1, t, v)
               [] f.fn = "restart" -> RestartAfterPM(S1, t, v)
               [] f.fn = "pmStopAll" -> PMStopAllAfterStop(S1, t, v)
               [] f.fn = "stopAll" -> StopAllAfterPM(S1, t, v)

\* fs.writeJson of saveConfig has finished
ConfigWritten(S, t, ok) ==
    LET n == S.calls[t].name
        S1 == [S EXCEPT !.configs[n] = t]
    IN  IF ~ok THEN Return(S, t, "WriteError")
        ELSE IF Top(S, t).fn = "add" THEN AddStore(S1, t)
        ELSE UpdateStore(S1, t)

\* fs.remove of deleteConfig has finished
ConfigRemoved(S, t, ok) ==
    IF ~ok THEN Return(S, t, "RemoveError")
    ELSE DeleteStore([S EXCEPT !.configs[S.calls[t].name] = NoFile], t)

\* fs.writeJson of saveProxies has finished
ProxiesWritten(S, t, ok) ==
    LET S1 == [S EXCEPT !.proxiesFile = S.calls[t].data, !.calls[t].data = EmptyData] IN
    IF ~ok THEN Return([S EXCEPT !.calls[t].data = EmptyData], t, "WriteError")
    ELSE IF Top(S, t).fn = "update" THEN UpdateAfterSave(S1, t)
    ELSE Return(S1, t, "ok")

\* a getProxyList that copies the descriptor's own status field
GetProxyListStored ==
    [n \in {m \in Names : proxies[m] # Absent} |->
        [name |-> n, ver |-> proxies[n].ver,
         status |-> proxies[n].status,
         createdAt |-> proxies[n].createdAt]]

\* getProxyList(): one entry per descriptor, status from the supervisor
GetProxyList ==
    [n \in {m \in Names : proxies[m] # Absent} |->
        [name |-> n, ver |-> proxies[n].ver,
         status |-> GetProcessStatus(State, n).status,
         createdAt |-> proxies[n].createdAt]]

\* getProxyDetails(name): the stored descriptor plus processStatus
GetProxyDetails(n) ==
    [config |-> proxies[n], processStatus |-> GetProcessStatus(State, n)]

---------------------------------------------------------------------------
(* The event loop *)

Waiting(t, fn, pc) ==
    /\ calls[t].stk # <<>>
    /\ Top(State, t).fn = fn
    /\ Top(State, t).pc = pc
    /\ t \notin Range(ready)

\* an earlier timer with no longer delay fires first
Fireable(t) ==
    \E i \in 1..Len(timers) :
        /\ timers[i].task = t
        /\ \A j \in 1..(i - 1) : timers[j].ms > timers[i].ms

\* calls are numbered in the order they are issued
CanInvoke(t) ==
    /\ ready = <<>>
    /\ calls[t].op = "none"
    /\ \A u \in Tasks : u < t => calls[u].op # "none"

Begin(t, op, n, valid) ==
    [State EXCEPT !.calls[t] = [IdleCall EXCEPT !.op = op, !.name = n, !.valid = valid]]

InvokeAdd(t, n) ==
    /\ CanInvoke(t)
    /\ \E valid \in BOOLEAN : Commit(AddCall(Begin(t, "add", n, valid), t))

InvokeUpdate(t, n) ==
    /\ CanInvoke(t)
    /\ \E valid \in BOOLEAN : Commit(UpdateCall(Begin(t, "update", n, valid), t))

InvokeDelete(t, n) ==
    /\ CanInvoke(t)
    /\ Commit(DeleteCall(Begin(t, "delete", n, TRUE), t))

InvokeStart(t, n) ==
    /\ CanInvoke(t)
    /\ Commit(StartCall(Begin(t, "start", n, TRUE), t))

InvokeStop(t, n) ==
    /\ CanInvoke(t)
    /\ Commit(StopCall(Begin(t, "stop", n, TRUE), t))

InvokeRestart(t, n) ==
    /\ CanInvoke(t)
    /\ Commit(RestartCall(Begin(t, "restart", n, TRUE), t))

InvokeStopAll(t) ==
    /\ CanInvoke(t)
    /\ Commit(StopAllCall(Begin(t, "stopAll", "", TRUE), t))

PathExistsDone(t) ==
    /\ ready = <<>>
    /\ Waiting(t, "pmStart", "exists")
    /\ \E ok \in BOOLEAN :
        /\ ok => FreePids(State) # {}
        /\ Commit(PMStartBody(State, t, ok))

ConfigWriteDone(t) ==
    /\ ready = <<>>
    /\ \/ Waiting(t, "add", "saveConfig")
       \/ Waiting(t, "update", "saveConfig")
    /\ \E ok \in BOOLEAN : Commit(ConfigWritten(State, t, ok))

ConfigRemoveDone(t) ==
    /\ ready = <<>>
    /\ Waiting(t, "delete", "remove")
    /\ \E ok \in BOOLEAN : Commit(ConfigRemoved(State, t, ok))

SaveDone(t) ==
    /\ ready = <<>>
    /\ calls[t].stk # <<>>
    /\ Top(State, t).pc = "save"
    /\ \E ok \in BOOLEAN : Commit(ProxiesWritten(State, t, ok))

GraceTimer(t) ==
    /\ ready = <<>>
    /\ Waiting(t, "pmStart", "grace")
    /\ Fireable(t)
    /\ Commit(GraceTimerFire(State, t))

StopTimer(t) ==
    /\ ready = <<>>
    /\ Waiting(t, "pmStop", "wait")
    /\ Fireable(t)
    /\ Commit(StopTimerFire(State, t))

PauseTimer(t) ==
    /\ ready = <<>>
    /\ Waiting(t, "pmRestart", "pause")
    /\ Fireable(t)
    /\ Commit(PauseTimerFire(State, t))

ProcExit(p) ==
    /\ ready = <<>>
    /\ procs[p].alive
    /\ Commit(EmitExit(State, p))

ContinueStart(t) ==
    /\ ready # <<>>
    /\ Head(ready) = t
    /\ Top(State, t).fn = "pmStart"
    /\ Commit(PMStartFinish([State EXCEPT !.ready = Tail(ready)], t))

ContinueStop(t) ==
    /\ ready # <<>>
    /\ Head(ready) = t
    /\ Top(State, t).fn = "pmStop"
    /\ Commit(PMStopFinish([State EXCEPT !.ready = Tail(ready)], t))

Invoke(t) ==
    \E n \in OpNames :
        \/ InvokeAdd(t, n)
        \/ InvokeUpdate(t, n)
        \/ InvokeDelete(t, n)
        \/ InvokeStart(t, n)
        \/ InvokeStop(t, n)

Step(t) ==
    \/ PathExistsDone(t)
    \/ ConfigWriteDone(t)
    \/ ConfigRemoveDone(t)
    \/ SaveDone(t)
    \/ GraceTimer(t)
    \/ StopTimer(t)
    \/ ContinueStart(t)
    \/ ContinueStop(t)

Next ==
    \/ \E t \in Callers : Invoke(t)
    \/ \E t \in Tasks : Step(t)
    \/ \E p \in Pids : ProcExit(p)

Spec == Init /\ [][Next]_vars

\* callers that issue a call only when no call is in flight
InFlight(t) == calls[t].op # "none" /\ calls[t].res = ""
Returned(t) == calls[t].res # ""
Quiescent == ready = <<>> /\ \A t \in Tasks : ~InFlight(t)

InvokeSeq(t) ==
    \E n \in OpNames :
        \/ Quiescent /\ InvokeAdd(t, n)
        \/ Quiescent /\ InvokeUpdate(t, n)
        \/ Quiescent /\ InvokeDelete(t, n)
        \/ Quiescent /\ InvokeStart(t, n)
        \/ Quiescent /\ InvokeStop(t, n)

NextSeq ==
    \/ \E t \in Callers : InvokeSeq(t)
    \/ \E t \in Tasks : Step(t)
    \/ \E p \in Pids : ProcExit(p)

SpecSeq == Init /\ [][NextSeq]_vars

\* serial callers of every registry operation
InvokeOps(t) ==
    \/ \E n \in OpNames :
        \/ Quiescent /\ InvokeAdd(t, n)
        \/ Quiescent /\ InvokeUpdate(t, n)
        \/ Quiescent /\ InvokeDelete(t, n)
        \/ Quiescent /\ InvokeStart(t, n)
        \/ Quiescent /\ InvokeStop(t, n)
        \/ Quiescent /\ InvokeRestart(t, n)
    \/ Quiescent /\ InvokeStopAll(t)

NextOps ==
    \/ \E t \in OpCallers : InvokeOps(t)
    \/ \E t \in Tasks : Step(t)
    \/ \E t \in Tasks : PauseTimer(t)
    \/ \E p \in Pids : ProcExit(p)

SpecOps == Init /\ [][NextOps]_vars

\* serial callers that start proxies and stop them all, on a store that
\* holds every name
InitAll == Init /\ \A n \in Names : proxies[n] = Loaded

InvokeAll(t) ==
    \/ \E n \in Names : Quiescent /\ InvokeStart(t, n)
    \/ Quiescent /\ InvokeStopAll(t)

StepAll(t) ==
    \/ PathExistsDone(t)
    \/ SaveDone(t)
    \/ GraceTimer(t)
    \/ StopTimer(t)
    \/ ContinueStart(t)
    \/ ContinueStop(t)

NextAll ==
    \/ \E t \in Tasks : InvokeAll(t)
    \/ \E t \in Tasks : StepAll(t)
    \/ \E p \in Pids : ProcExit(p)

SpecAll == InitAll /\ [][NextAll]_vars

\* concurrent callers of start, stop and restart on two names
InvokePair(t) ==
    \E n \in PairNames :
        \/ InvokeStart(t, n)
        \/ InvokeStop(t, n)
        \/ InvokeRestart(t, n)

StepPair(t) ==
    \/ PathExistsDone(t)
    \/ SaveDone(t)
    \/ GraceTimer(t)
    \/ StopTimer(t)
    \/ PauseTimer(t)
    \/ ContinueStart(t)
    \/ ContinueStop(t)

NextPair ==
    \/ \E t \in OpCallers : InvokePair(t)
    \/ \E t \in Tasks : StepPair(t)
    \/ \E p \in Pids : ProcExit(p)

SpecPair == Init /\ [][NextPair]_vars

\* the constructor has just run: the registry is empty and the loadProxies it
\* started without awaiting is at its fs.pathExists; callers issue calls
\* while it runs
Loader == MaxCalls + 1

\* loadProxies after fs.pathExists
LoadExists(S, t) ==
    IF S.proxiesFile = EmptyData THEN Return(S, t, "ok") ELSE SetPc(S, t, "read")

\* loadProxies after fs.readJson: every stored entry is set into the map as
\* a newly parsed object; a read error is logged and nothing is loaded
LoadRead(S, t, ok) ==
    IF ~ok THEN Return(S, t, "ok")
    ELSE Return([S EXCEPT !.proxies = [n \in Names |->
                    IF S.proxiesFile[n] # Absent
                    THEN [S.proxiesFile[n] EXCEPT !.oid = 0]
                    ELSE S.proxies[n]]], t, "ok")

InitLoad ==
    /\ install = FullInstall
    /\ dl = IdleDl
    /\ UtilIdle
    /\ proxies = EmptyData
    /\ proxiesFile \in Stores
    /\ configs = [n \in Names |-> IF proxiesFile[n] = Absent THEN NoFile ELSE 0]
    /\ processes = [n \in Names |-> NoRecord]
    /\ procs = [p \in Pids |-> NoProc]
    /\ calls = [t \in Tasks |->
          IF t = Loader
          THEN [IdleCall EXCEPT !.op = "load", !.stk = <<[fn |-> "load", pc |-> "exists"]>>]
          ELSE IdleCall]
    /\ ready = <<>>
    /\ timers = <<>>

LoadExistsDone ==
    /\ ready = <<>>
    /\ Waiting(Loader, "load", "exists")
    /\ Commit(LoadExists(State, Loader))

LoadReadDone ==
    /\ ready = <<>>
    /\ Waiting(Loader, "load", "read")
    /\ \E ok \in BOOLEAN : Commit(LoadRead(State, Loader, ok))

NextLoad ==
    \/ \E t \in Callers : Invoke(t)
    \/ \E t \in Tasks : Step(t)
    \/ \E p \in Pids : ProcExit(p)
    \/ LoadExistsDone
    \/ LoadReadDone

SpecLoad == InitLoad /\ [][NextLoad]_vars

---------------------------------------------------------------------------
(* XRayDownloader (src/unnamed/part_000) *)

\* Number(field) of a field that is no number
NaN == -1

\* v1Parts[i] || 0 with a missing field taken as smaller than every field
PartMissingLow(v, i) == IF i <= Len(v) THEN v[i] ELSE -1

\* v1Parts[i] || 0: undefined (no such field), NaN and 0 all give 0
Part(v, i) == IF i <= Len(v) /\ v[i] # NaN THEN v[i] ELSE 0

RECURSIVE CompareFrom(_, _, _)
CompareFrom(v1, v2, i) ==
    IF i > (IF Len(v1) > Len(v2) THEN Len(v1) ELSE Len(v2)) THEN 0
    ELSE IF Part(v1, i) > Part(v2, i) THEN 1
    ELSE IF Part(v1, i) < Part(v2, i) THEN -1
    ELSE CompareFrom(v1, v2, i + 1)

CompareVersions(version1, version2) == CompareFrom(version1, version2, 1)

\* getInstalledVersion(path of the executable in binDir)
GetInstalledVersion(I) == IF I.exe THEN I.exeVer ELSE NoVersion

\* getCurrentVersion(): the version file, else the executable's answer
GetCurrentVersion(I) ==
    IF I.versionFile # NoVersion THEN I.versionFile ELSE GetInstalledVersion(I)

\* checkXRayInstalled(): "" stands for null
CheckXRayInstalled(I) ==
    LET inPath == IF I.pathXray THEN "xray" ELSE "" IN
    IF I.exe
    THEN IF ~I.geoip \/ ~I.geosite THEN ""
         ELSE IF GetInstalledVersion(I) # NoVersion THEN "bin"
         ELSE inPath
    ELSE inPath

\* the call returns a path or throws: v is the path or the error
DlReturn(D, v) == [D EXCEPT !.dl.pc = "done", !.dl.res = v]

\* downloadAndInstall up to its await of getLatestRelease
DlBegin(D, forceUpdate) ==
    [D EXCEPT !.dl.pc = "fetch", !.dl.inDownload = TRUE, !.dl.force = forceUpdate,
              !.dl.queries = @ + 1,
              !.dl.progress = @ \cup {<<"fetch_info", 10>>}]

\* a downloadAndInstall that does not look into the cache
DlAfterFetchNoCache(D, ok, v, asset) ==
    LET I == D.install
        cur == GetCurrentVersion(I)
    IN  IF ~ok THEN DlReturn(D, "FetchFailed")
        ELSE IF ~D.dl.force /\ cur # NoVersion /\ CompareVersions(v, cur) <= 0 /\ I.exe
        THEN DlReturn([D EXCEPT !.dl.version = v], "bin")
        ELSE IF ~asset THEN DlReturn([D EXCEPT !.dl.version = v], "NoAsset")
        ELSE [D EXCEPT !.dl.version = v, !.dl.pc = "download",
                       !.dl.downloads = @ + 1,
                       !.install.cache[v] = "partial"]

\* downloadAndInstall from the release to the cache check
DlAfterFetch(D, ok, v, asset) ==
    LET I == D.install
        cur == GetCurrentVersion(I)
    IN  IF ~ok THEN DlReturn(D, "FetchFailed")
        ELSE IF ~D.dl.force /\ cur # NoVersion /\ CompareVersions(v, cur) <= 0 /\ I.exe
        THEN DlReturn([D EXCEPT !.dl.version = v], "bin")
        ELSE IF ~asset THEN DlReturn([D EXCEPT !.dl.version = v], "NoAsset")
        ELSE IF I.cache[v] # "none"
        THEN [D EXCEPT !.dl.version = v, !.dl.hit = TRUE, !.dl.pc = "extract",
                       !.dl.progress = @ \cup {<<"download", 100>>, <<"extract", 0>>}]
        ELSE [D EXCEPT !.dl.version = v, !.dl.pc = "download",
                       !.dl.downloads = @ + 1,
                       !.install.cache[v] = "partial"]

\* downloadFile has returned or thrown after its attempts
DlAfterDownload(D, ok, kind) ==
    LET v == D.dl.version IN
    IF ~ok THEN DlReturn([D EXCEPT !.install.cache[v] = "none"], "DownloadFailed")
    ELSE [D EXCEPT !.install.cache[v] = kind, !.dl.pc = "extract",
                   !.dl.progress = @ \cup {<<"download", 100>>, <<"extract", 0>>}]

\* extractFile(downloadPath, binDir), then saveVersionInfo
DlExtract(D) ==
    LET v == D.dl.version
        kind == D.install.cache[v]
        D1 == [D EXCEPT !.dl.pc = "verify",
                        !.dl.extracted = IF D.dl.hit THEN "cache" ELSE "download",
                        !.install.exe = TRUE, !.install.exeVer = v,
                        !.install.versionFile = v]
    IN  IF kind = "full" THEN [D1 EXCEPT !.install.geoip = TRUE, !.install.geosite = TRUE]
        ELSE IF kind = "nodata" THEN D1
        ELSE DlReturn(D, "ExtractFailed")

\* the verification at the end of downloadAndInstall
DlVerify(D) ==
    LET I == D.install IN
    IF ~I.exe THEN DlReturn(D, "VerifyFailed")
    ELSE IF ~I.geoip \/ ~I.geosite THEN DlReturn(D, "VerifyFailed")
    ELSE IF GetInstalledVersion(I) = NoVersion THEN DlReturn(D, "VerifyFailed")
    ELSE DlReturn([D EXCEPT !.dl.progress = @ \cup {<<"complete", 100>>}], "bin")

\* ensureXRayAvailable up to its await of checkForUpdates' getLatestRelease
EnsureBegin(D) ==
    LET existingPath == CheckXRayInstalled(D.install)
        D1 == [D EXCEPT !.dl.existingPath = existingPath]
    IN  IF existingPath # "" /\ ~D.dl.checkUpdates THEN DlReturn(D1, existingPath)
        ELSE [D1 EXCEPT !.dl.pc = "check", !.dl.queries = @ + 1]

\* ensureXRayAvailable after checkForUpdates
EnsureAfterCheck(D, ok, v) ==
    LET cur == GetCurrentVersion(D.install)
        needsUpdate == ok /\ (cur = NoVersion \/ CompareVersions(v, cur) > 0)
        D1 == [D EXCEPT !.dl.needsUpdate = needsUpdate]
    IN  IF needsUpdate
        THEN IF D.dl.autoDownload THEN DlBegin(D1, TRUE)
             ELSE DlReturn(D1, "NoAutoDownload")
        ELSE IF D.dl.existingPath # "" THEN DlReturn(D1, D.dl.existingPath)
        ELSE DlReturn(D1, "CannotEnsure")

Dl == [install |-> install, dl |-> dl]

CommitDl(D) ==
    /\ install' = D.install
    /\ dl' = D.dl
    /\ UNCHANGED registryVars
    /\ UNCHANGED utilVars

CanInvokeDl == dl.pc \in {"idle", "done"} /\ dl.n < MaxDl

NewDl(op) == [Dl EXCEPT !.dl = [IdleDl EXCEPT !.op = op, !.n = dl.n + 1]]

InvokeDownload ==
    /\ CanInvokeDl
    /\ \E forceUpdate \in BOOLEAN : CommitDl(DlBegin(NewDl("download"), forceUpdate))

InvokeEnsure ==
    /\ CanInvokeDl
    /\ \E autoDownload \in BOOLEAN : \E checkUpdates \in BOOLEAN :
          CommitDl(EnsureBegin([NewDl("ensure") EXCEPT
                                   !.dl.autoDownload = autoDownload,
                                   !.dl.checkUpdates = checkUpdates]))

FetchDone ==
    /\ dl.pc = "fetch"
    /\ \E ok \in BOOLEAN : \E v \in Versions : \E asset \in BOOLEAN :
          CommitDl(DlAfterFetch(Dl, ok, v, asset))

CheckDone ==
    /\ dl.pc = "check"
    /\ \E ok \in BOOLEAN : \E v \in Versions : CommitDl(EnsureAfterCheck(Dl, ok, v))

DownloadDone ==
    /\ dl.pc = "download"
    /\ \E ok \in BOOLEAN : \E kind \in Archives : CommitDl(DlAfterDownload(Dl, ok, kind))

ExtractDone ==
    /\ dl.pc = "extract"
    /\ CommitDl(DlExtract(Dl))

VerifyDone ==
    /\ dl.pc = "verify"
    /\ CommitDl(DlVerify(Dl))

Caches == {NoCache} \cup {[NoCache EXCEPT ![v] = k] : v \in Versions, k \in Archives}

Installs ==
    {I \in [exe : BOOLEAN, exeVer : Versions \cup {NoVersion}, geoip : BOOLEAN,
            geosite : BOOLEAN, versionFile : Versions \cup {NoVersion},
            cache : Caches, pathXray : BOOLEAN] :
        ~I.exe => I.exeVer = NoVersion}

InitDl ==
    /\ install \in Installs
    /\ dl = IdleDl
    /\ UtilIdle
    /\ proxies = EmptyData
    /\ proxiesFile = EmptyData
    /\ configs = [n \in Names |-> NoFile]
    /\ processes = [n \in Names |-> NoRecord]
    /\ procs = [p \in Pids |-> NoProc]
    /\ calls = [t \in Tasks |-> IdleCall]
    /\ ready = <<>>
    /\ timers = <<>>

NextDl ==
    \/ InvokeDownload
    \/ InvokeEnsure
    \/ FetchDone
    \/ CheckDone
    \/ DownloadDone
    \/ ExtractDone
    \/ VerifyDone

SpecDl == InitDl /\ [][NextDl]_vars

\* The host process ends (quit, kill, power loss) while _downloadFileAttempt is
\* writing: the call is gone, and what createWriteStream(outputPath) has
\* written so far stays in the cache directory for the next session.
Interrupt ==
    /\ dl.pc = "download"
    /\ CommitDl(DlReturn(Dl, "Interrupted"))

NextDlInt == NextDl \/ Interrupt

SpecDlInt == InitDl /\ [][NextDlInt]_vars

\* A caller that invokes downloadAndInstall again whenever the previous call
\* has returned or thrown.  From the second call on the release source
\* answers, offers the asset and serves a good archive; the cache directory
\* is empty at the start, so a bad archive in it was stored by the first call.
InitRetry == InitDl /\ install.cache = NoCache

InvokeRetry ==
    /\ dl.pc \in {"idle", "done"}
    /\ \E forceUpdate \in BOOLEAN :
          CommitDl(DlBegin([Dl EXCEPT !.dl = [IdleDl EXCEPT
                               !.op = "download",
                               !.n = IF dl.n < MaxDl THEN dl.n + 1 ELSE MaxDl]],
                           forceUpdate))

FetchRetry ==
    /\ dl.pc = "fetch"
    /\ \E ok \in BOOLEAN : \E v \in Versions : \E asset \in BOOLEAN :
          /\ dl.n >= 2 => (ok /\ asset)
          /\ CommitDl(DlAfterFetch(Dl, ok, v, asset))

DownloadRetry ==
    /\ dl.pc = "download"
    /\ \E ok \in BOOLEAN : \E kind \in Archives :
          /\ dl.n >= 2 => (ok /\ kind = "full")
          /\ CommitDl(DlAfterDownload(Dl, ok, kind))

NextRetry ==
    \/ InvokeRetry
    \/ FetchRetry
    \/ DownloadRetry
    \/ ExtractDone
    \/ VerifyDone

SpecRetry == InitRetry /\ [][NextRetry]_vars

\* every request and file operation completes and the caller keeps retrying
SpecRetryFair == SpecRetry /\ WF_vars(NextRetry)

---------------------------------------------------------------------------
(* XRayDownloader.getLatestRelease (src/unnamed/part_000); in SpecRel the    *)
(* variable dl is the record of this call                                    *)

maxRetries == 3              \* this.maxRetries = 3
retryDelay == 2000           \* this.retryDelay = 2000
FetchTimeoutMs == 30000      \* _fetchLatestRelease: setTimeout(..., 30000)

\* what _fetchLatestRelease rejects with
HttpErrors == {"HTTP 403", "HTTP 500"}
IdleRel == [op |-> "getLatestRelease", pc |-> "idle", attempt |-> 0, timer |-> 0,
            errors |-> <<>>, waits |-> <<>>, fallbacks |-> 0, res |-> ""]

\* error.message.includes('rate limit') || error.message.includes('403')
RateLimited(error) == error = "HTTP 403"

\* the catch block of getLatestRelease in attempt d.attempt.  The fallback
\* this._fetchLatestReleaseFromWeb() is no method of the class: the call
\* throws a TypeError, which the inner catch logs and drops.
RelCatch(d, error) ==
    LET d1 == [d EXCEPT !.errors = Append(@, error), !.timer = 0,
                        !.fallbacks = IF RateLimited(error) THEN @ + 1 ELSE @]
    IN  IF d.attempt = maxRetries
        THEN [d1 EXCEPT !.pc = "done", !.res = "Failed"]
        ELSE [d1 EXCEPT !.pc = "delay", !.timer = retryDelay * d.attempt,
                        !.waits = Append(@, retryDelay * d.attempt)]

RelFrame == UNCHANGED <<registryVars, install, utilVars>>

RelCall ==
    /\ dl.pc = "idle"
    /\ dl' = [dl EXCEPT !.pc = "request", !.attempt = 1, !.timer = FetchTimeoutMs]
    /\ RelFrame

\* the response callback of https.get: clearTimeout, then the status test
RelResponse ==
    /\ dl.pc = "request"
    /\ \/ dl' = [dl EXCEPT !.pc = "body", !.timer = 0]
       \/ \E error \in HttpErrors : dl' = RelCatch(dl, error)
    /\ RelFrame

\* the 'error' event of the request
RelNetworkError ==
    /\ dl.pc = "request"
    /\ dl' = RelCatch(dl, "network")
    /\ RelFrame

\* the 30 s timer fires before any response
RelTimeout ==
    /\ dl.pc = "request"
    /\ dl.timer = FetchTimeoutMs
    /\ dl' = RelCatch(dl, "timeout")
    /\ RelFrame

\* the 'end' event of the response: JSON.parse and the shape test
RelBodyEnd ==
    /\ dl.pc = "body"
    /\ \/ dl' = [dl EXCEPT !.pc = "done", !.res = "release"]
       \/ dl' = RelCatch(dl, "invalid response")
    /\ RelFrame

\* await this.delay(this.retryDelay * attempt), then the next attempt
RelDelayDone ==
    /\ dl.pc = "delay"
    /\ dl' = [dl EXCEPT !.pc = "request", !.attempt = @ + 1, !.timer = FetchTimeoutMs]
    /\ RelFrame

InitRel ==
    /\ install = FullInstall
    /\ dl = IdleRel
    /\ UtilIdle
    /\ proxies = EmptyData
    /\ proxiesFile = EmptyData
    /\ configs = [n \in Names |-> NoFile]
    /\ processes = [n \in Names |-> NoRecord]
    /\ procs = [p \in Pids |-> NoProc]
    /\ calls = [t \in Tasks |-> IdleCall]
    /\ ready = <<>>
    /\ timers = <<>>

NextRel ==
    \/ RelCall
    \/ RelResponse
    \/ RelNetworkError
    \/ RelTimeout
    \/ RelBodyEnd
    \/ RelDelayDone

SpecRel == InitRel /\ [][NextRel]_vars

\* The event loop runs the call and fires its timers; the network owes no
\* event: no response, no error, no end of a body that has begun.
SpecRelFair ==
    /\ SpecRel
    /\ WF_vars(RelCall)
    /\ WF_vars(RelTimeout)
    /\ WF_vars(RelDelayDone)

---------------------------------------------------------------------------
(* XRayDownloader.compareVersions on version strings (src/unnamed/part_000) *)

MaxFields == 3                     \* dot-separated fields of a version string
FieldValues == {0, 1, 2, 9, 10}    \* the numbers the fields are written from

\* a string is the sequence of its characters
DigitChars == <<"0", "1", "2", "3", "4", "5", "6", "7", "8", "9">>
IsDigit(c) == \E d \in 1..10 : DigitChars[d] = c
DigitOf(c) == CHOOSE d \in 0..9 : DigitChars[d + 1] = c

\* the decimal numeral of n, and the version string of a list of numbers
RECURSIVE Decimal(_)
Decimal(n) ==
    IF n < 10 THEN <<DigitChars[n + 1]>>
    ELSE Decimal(n \div 10) \o <<DigitChars[(n % 10) + 1]>>

RECURSIVE Join(_)
Join(fields) ==
    IF Len(fields) = 1 THEN Decimal(fields[1])
    ELSE Decimal(fields[1]) \o <<".">> \o Join(Tail(fields))

\* version.split('.')
RECURSIVE Split(_)
Split(str) ==
    IF str = <<>> THEN << <<>> >>
    ELSE IF Head(str) = "." THEN << <<>> >> \o Split(Tail(str))
    ELSE LET rest == Split(Tail(str))
         IN  << <<Head(str)>> \o rest[1] >> \o Tail(rest)

\* Number(field) for a field of digits and other characters: '' is 0,
\* a digit string is its decimal value, anything else is NaN
RECURSIVE NumberFrom(_, _)
NumberFrom(field, acc) ==
    IF field = <<>> THEN acc
    ELSE NumberFrom(Tail(field), 10 * acc + DigitOf(Head(field)))

Number(field) ==
    IF \E i \in 1..Len(field) : ~IsDigit(field[i]) THEN NaN
    ELSE NumberFrom(field, 0)

\* version.split('.').map(Number)
Parts(version) == [i \in 1..Len(Split(version)) |-> Number(Split(version)[i])]

compareVersions(version1, version2) == CompareVersions(Parts(version1), Parts(version2))

\* every list of up to MaxFields numbers, and one release with a fourth field
FieldLists == UNION {[1..n -> FieldValues] : n \in 1..MaxFields} \cup {<<2, 0, 0, 1>>}

RegistryIdle ==
    /\ proxies = EmptyData
    /\ proxiesFile = EmptyData
    /\ configs = [n \in Names |-> NoFile]
    /\ processes = [n \in Names |-> NoRecord]
    /\ procs = [p \in Pids |-> NoProc]
    /\ calls = [t \in Tasks |-> IdleCall]
    /\ ready = <<>>
    /\ timers = <<>>
    /\ install = FullInstall
    /\ dl = IdleDl

InitCmp ==
    /\ RegistryIdle
    /\ \E f1 \in FieldLists, f2 \in FieldLists :
          cmp = [NoCmp EXCEPT !.version1 = Join(f1), !.version2 = Join(f2),
                              !.parts1 = f1, !.parts2 = f2]
    /\ logs = <<>>
    /\ clock = NoClock
    /\ proxyConfig = NoValue
    /\ validation = NoValue
    /\ xrayConfig = NoValue

CompareCall ==
    /\ ~cmp.called
    /\ cmp' = [cmp EXCEPT !.called = TRUE,
                          !.result = compareVersions(cmp.version1, cmp.version2),
                          !.reverse = compareVersions(cmp.version2, cmp.version1)]
    /\ UNCHANGED <<registryVars, install, dl, logs, clock, proxyConfig, validation, xrayConfig>>

NextCmp == CompareCall

SpecCmp == InitCmp /\ [][NextCmp]_vars

---------------------------------------------------------------------------
(* XRayLogManager (src/utils/xray-log-manager.js) *)

\* The caps of the constructor and the batch of limitTotalLogs, scaled down
\* with their order kept: batch < per-proxy cap < total cap < 2 * per-proxy cap
\* (the program has 100 < 1000 < 5000).
maxLogsPerProxy == 3         \* this.maxLogsPerProxy = 1000
maxTotalLogs == 5            \* this.maxTotalLogs = 5000
EvictBatch == 2              \* Math.min(100, proxyLogs.length)
MaxAdds == 7                 \* addLog calls in one behaviour
LogNames == {"a", "b"}       \* proxies that write log lines

\* `logs` is the Map as the sequence of its [proxyName, entries] pairs in key
\* order; an entry is [id, timestamp], id being the number of the addLog
\* call that made it and timestamp the clock (in ms) at that call.
IndexOf(L, proxyName) ==
    IF \E i \in 1..Len(L) : L[i].proxyName = proxyName
    THEN CHOOSE i \in 1..Len(L) : L[i].proxyName = proxyName
    ELSE 0

RECURSIVE TotalLogs(_)
TotalLogs(L) == IF L = <<>> THEN 0 ELSE Len(Head(L).entries) + TotalLogs(Tail(L))

\* a[1][0]?.timestamp || ''
Oldest(e) == IF e.entries = <<>> THEN -1 ELSE e.entries[1].timestamp

\* Array.from(this.logs.entries()).sort(...): a stable sort by oldest entry
SortsBefore(L, i, j) ==
    \/ Oldest(L[i]) < Oldest(L[j])
    \/ Oldest(L[i]) = Oldest(L[j]) /\ i < j
SortedProxies(L) ==
    [k \in 1..Len(L) |->
        CHOOSE i \in 1..Len(L) :
            Cardinality({j \in 1..Len(L) : SortsBefore(L, j, i)}) = k - 1]

\* the for loop of limitTotalLogs over sortedProxies, from position k on
RECURSIVE EvictLoop(_, _, _, _, _, _)
EvictLoop(L, sorted, k, totalLogs, evicted, deleted) ==
    IF k > Len(sorted) \/ totalLogs <= maxTotalLogs
    THEN [logs |-> L, evicted |-> evicted, deleted |-> deleted]
    ELSE LET i == sorted[k]
             proxyLogs == L[i].entries
             removeCount == IF EvictBatch < Len(proxyLogs) THEN EvictBatch ELSE Len(proxyLogs)
         IN  EvictLoop([L EXCEPT ![i].entries = SubSeq(proxyLogs, removeCount + 1, Len(proxyLogs))],
                       sorted, k + 1, totalLogs - removeCount,
                       evicted \cup {proxyLogs[j] : j \in 1..removeCount},
                       IF removeCount = Len(proxyLogs) THEN deleted \cup {i} ELSE deleted)

\* the Map without the keys that this.logs.delete removed
WithoutKeys(L, deleted) ==
    LET Kept(i) == i \notin deleted
        keys == SelectSeq([i \in 1..Len(L) |-> i], Kept)
    IN  [k \in 1..Len(keys) |-> L[keys[k]]]

limitTotalLogs(L) ==
    IF TotalLogs(L) > maxTotalLogs
    THEN LET r == EvictLoop(L, SortedProxies(L), 1, TotalLogs(L), {}, {})
         IN  [logs |-> WithoutKeys(r.logs, r.deleted), evicted |-> r.evicted]
    ELSE [logs |-> L, evicted |-> {}]

\* proxyLogs.push(logEntry) with the newest entry dropped when over the cap
PushEntryDropNewest(proxyLogs, logEntry) ==
    IF Len(proxyLogs) + 1 > maxLogsPerProxy THEN proxyLogs ELSE Append(proxyLogs, logEntry)

\* proxyLogs.push(logEntry); if (length > maxLogsPerProxy) proxyLogs.shift()
PushEntry(proxyLogs, logEntry) ==
    IF Len(proxyLogs) + 1 > maxLogsPerProxy
    THEN Tail(Append(proxyLogs, logEntry))
    ELSE Append(proxyLogs, logEntry)

addLog(L, proxyName, logEntry) ==
    LET L1 == IF IndexOf(L, proxyName) = 0
              THEN Append(L, [proxyName |-> proxyName, entries |-> <<>>])
              ELSE L
        i == IndexOf(L1, proxyName)
    IN  limitTotalLogs([L1 EXCEPT ![i].entries = PushEntry(@, logEntry)])

\* one addLog call; the clock has advanced by `elapsed` ms since the last one
AddLog(proxyName, elapsed) ==
    /\ Len(clock.history) < MaxAdds
    /\ LET now == clock.now + elapsed
           logEntry == [id |-> Len(clock.history) + 1, timestamp |-> now]
           r == addLog(logs, proxyName, logEntry)
       IN  /\ logs' = r.logs
           /\ clock' = [clock EXCEPT !.now = now, !.history = Append(@, proxyName),
                                     !.evicted = r.evicted,
                                     !.events = Append(@, "newLog")]
    /\ UNCHANGED <<registryVars, install, dl, cmp, proxyConfig, validation, xrayConfig>>

InitLog == RegistryIdle /\ UtilIdle

NextLog == \E proxyName \in LogNames, elapsed \in {0, 1} : AddLog(proxyName, elapsed)

SpecLog == InitLog /\ [][NextLog]_vars

MaxClears == 1               \* clear calls in one behaviour

\* clearProxyLogs(proxyName): delete and emit, if the Map has the key
ClearProxyLogs(proxyName) ==
    /\ clock.clears < MaxClears
    /\ LET i == IndexOf(logs, proxyName) IN
       IF i # 0
       THEN /\ logs' = WithoutKeys(logs, {i})
            /\ clock' = [clock EXCEPT !.clears = @ + 1, !.evicted = {},
                                      !.events = Append(@, "logsCleared")]
       ELSE /\ logs' = logs
            /\ clock' = [clock EXCEPT !.clears = @ + 1, !.evicted = {}]
    /\ UNCHANGED <<registryVars, install, dl, cmp, proxyConfig, validation, xrayConfig>>

\* clearAllLogs(): this.logs.clear() and emit
ClearAllLogs ==
    /\ clock.clears < MaxClears
    /\ logs' = <<>>
    /\ clock' = [clock EXCEPT !.clears = @ + 1, !.evicted = {},
                              !.events = Append(@, "logsCleared")]
    /\ UNCHANGED <<registryVars, install, dl, cmp, proxyConfig, validation, xrayConfig>>

NextClear ==
    \/ NextLog
    \/ \E proxyName \in LogNames : ClearProxyLogs(proxyName)
    \/ ClearAllLogs

SpecClear == InitLog /\ [][NextClear]_vars

---------------------------------------------------------------------------
(* ConfigValidator (utils/validator, src/unnamed/part_005) and              *)
(* ConfigManager.generateConfig (src/config-manager.js), as addProxy and    *)
(* updateProxy call them on the descriptor object they were handed          *)

\* JavaScript values: strings and booleans are written as strings, a number
\* as [type, int, exact] with int what parseInt makes of it and exact telling
\* whether the value is that integer; an object carries type "object".
Undefined == "undefined"
JsTrue == "true"
JsFalse == "false"
Num(n) == [type |-> "number", int |-> n, exact |-> TRUE]
Falsy(v) == v \in {Undefined, "", JsFalse}
OrElse(a, b) == IF Falsy(a) THEN b ELSE a          \* a || b on strings

\* the descriptors handed in
Protocols == {"vless", "vmess", "trojan", "VLESS", "shadowsocks"}
ValidUUIDs == {"3f2c1b7e-9a4d-4c1e-8b2a-5d6e7f8091a2"}
\* what uuidv4() may return
FreshUUIDs == {"0e8c7d6b-5a49-4382-9170-6f5e4d3c2b1a", "7b1d2e3f-4a5b-4c6d-9e7f-8a9b0c1d2e3f"}
UserIds == ValidUUIDs \cup {"not-a-uuid", Undefined}
Passwords == {"secret", Undefined}
Addresses == {"example.com", Undefined}
PortValues ==
    { Num(1080),                                           \* 1080
      [type |-> "number", int |-> 1080, exact |-> FALSE],  \* 1080.5
      [type |-> "string", int |-> 1080, exact |-> TRUE],   \* "1080"
      Num(0), Num(70000), NoValue }
Stream(network, security, allowInsecure) ==
    [type |-> "object", network |-> network, security |-> security,
     allowInsecure |-> allowInsecure, serverName |-> Undefined, address |-> Undefined,
     mode |-> Undefined, path |-> Undefined]
StreamValues ==
    {NoValue} \cup {Stream(n, sec, a) : n \in {Undefined, "ws"}, sec \in {Undefined, "none"},
                                       a \in {Undefined, JsTrue, JsFalse}}
Descriptors ==
    [type : {"object"}, address : Addresses, port : {Num(443)}, localPort : PortValues,
     protocol : Protocols, userId : UserIds, password : Passwords,
     streamSettings : StreamValues]

NaNValue == [type |-> "number", int |-> NaN, exact |-> TRUE]
\* parseInt(v): the integer part as a number, NaN for undefined
parseInt(v) == IF v.type = "undefined" THEN NaNValue ELSE Num(v.int)
\* !v for a port value: undefined, 0 and NaN
NotPort(v) == v.type = "undefined" \/ (v.type = "number" /\ v.exact /\ v.int \in {0, NaN})

toLowerCase(str) == IF str = "VLESS" THEN "vless" ELSE str
isValidPort(port) ==
    LET portNum == parseInt(port)
    IN  portNum.int # NaN /\ portNum.int >= 1 /\ portNum.int <= 65535
\* the IP and domain patterns and the UUID pattern, on the values drawn
isValidAddress(address) == address = "example.com"
isValidUUID(uuid) == uuid \in ValidUUIDs
isValidProtocol(protocol) ==
    toLowerCase(protocol) \in {"vless", "vmess", "trojan", "shadowsocks", "socks", "http"}

\* config.network and config.security are undefined in the descriptors drawn
validateProxyConfig(config) ==
    LET errors ==
          (IF Falsy(config.address) \/ ~isValidAddress(config.address) THEN {"address"} ELSE {})
          \cup (IF NotPort(config.port) \/ ~isValidPort(config.port) THEN {"port"} ELSE {})
          \cup (IF NotPort(config.localPort) \/ ~isValidPort(config.localPort)
                THEN {"localPort"} ELSE {})
          \cup (IF Falsy(config.protocol) \/ ~isValidProtocol(config.protocol)
                THEN {"protocol"} ELSE {})
          \cup (IF config.protocol \in {"vless", "vmess"} /\ ~Falsy(config.userId)
                   /\ ~isValidUUID(config.userId)
                THEN {"userId"} ELSE {})
    IN  [type |-> "object", isValid |-> (errors = {}), errors |-> errors]

createStreamSettings(streamConfig) ==
    LET network == OrElse(streamConfig.network, "tcp")
        tls == streamConfig.security = "tls" \/ Falsy(streamConfig.security)
    IN  [type |-> "object", network |-> network,
         security |-> IF tls THEN "tls" ELSE Undefined,
         tlsSettings |->
             IF tls
             THEN [type |-> "object",
                   serverName |-> OrElse(streamConfig.serverName, streamConfig.address),
                   allowInsecure |-> JsTrue]
             ELSE NoValue,
         wsSettings |->
             IF streamConfig.network = "ws"
             THEN [type |-> "object", path |-> OrElse(streamConfig.path, "/")]
             ELSE NoValue,
         xhttpSettings |->
             IF streamConfig.network = "xhttp"
             THEN [type |-> "object", mode |-> OrElse(streamConfig.mode, "auto"),
                   path |-> OrElse(streamConfig.path, "/mcproxy")]
             ELSE NoValue]

createInbound(config) ==
    [type |-> "object", listen |-> "127.0.0.1", port |-> parseInt(config.localPort),
     protocol |-> "dokodemo-door", tag |-> "proxy-in",
     settings |-> [address |-> config.address, port |-> parseInt(config.port),
                   network |-> "tcp"]]

\* createVLESSOutbound, createVMessOutbound, createTrojanOutbound; uuid is
\* what generateUUID() returns if it is called
createOutbound(protocol, config, uuid) ==
    [type |-> "object", protocol |-> protocol,
     address |-> config.address, port |-> parseInt(config.port),
     id |-> IF protocol = "trojan" THEN Undefined ELSE OrElse(config.userId, uuid),
     password |-> IF protocol = "trojan" THEN config.password ELSE Undefined,
     streamSettings |->
         IF config.streamSettings.type = "undefined" THEN NoValue
         ELSE createStreamSettings(config.streamSettings)]

\* generateConfig(proxyConfig): the object as the call leaves it, and the
\* config returned or the error thrown
generateConfig(config, uuid) ==
    LET given == IF config.streamSettings.type = "undefined"
                 THEN Stream(Undefined, Undefined, Undefined)
                 ELSE config.streamSettings
        forced == [given EXCEPT !.network = "xhttp", !.security = "tls",
                                !.mode = "auto", !.path = "/mcproxy"]
        after == [config EXCEPT !.streamSettings = forced]
        protocol == toLowerCase(after.protocol)
    IN  [proxyConfig |-> after,
         config |->
             IF protocol \in {"vless", "vmess", "trojan"}
             THEN [type |-> "object",
                   inbounds |-> <<createInbound(after)>>,
                   outbounds |-> <<createOutbound(protocol, after, uuid)>>]
             ELSE [type |-> "error"]]

InitGen ==
    /\ RegistryIdle
    /\ cmp = NoCmp
    /\ logs = <<>>
    /\ clock = NoClock
    /\ proxyConfig \in Descriptors
    /\ validation = NoValue
    /\ xrayConfig = NoValue

\* addProxy and updateProxy: const validation = validateProxyConfig(config)
Validate ==
    /\ validation.type = "undefined"
    /\ validation' = validateProxyConfig(proxyConfig)
    /\ UNCHANGED <<registryVars, install, dl, cmp, logs, clock, proxyConfig, xrayConfig>>

\* ... if (!validation.isValid) throw ...; generateConfig(config)
Generate ==
    /\ validation.type = "object"
    /\ validation.isValid
    /\ xrayConfig.type = "undefined"
    /\ \E uuid \in FreshUUIDs :
          LET r == generateConfig(proxyConfig, uuid)
          IN  /\ proxyConfig' = r.proxyConfig
              /\ xrayConfig' = r.config
    /\ UNCHANGED <<registryVars, install, dl, cmp, logs, clock, validation>>

NextGen == Validate \/ Generate

SpecGen == InitGen /\ [][NextGen]_vars

---------------------------------------------------------------------------
(* Properties *)

Registered(n) == proxies[n] # Absent
AliveProcs(n) == {p \in Pids : procs[p].name = n /\ procs[p].alive}
Issued == {t \in Tasks : calls[t].op # "none"}
At(t, fn, pc) == calls[t].stk # <<>> /\ Top(State, t).fn = fn /\ Top(State, t).pc = pc

\* C1: when the only calls issued are two or more startProxy calls on one
\* name, at most one engine process of that name is alive at any moment, and
\* once all of them have returned a process of that name that is still alive
\* is the one held by the live record of the name.
OnlyStarts(n) ==
    /\ Cardinality(Issued) >= 2
    /\ \A t \in Issued : calls[t].op = "start" /\ calls[t].name = n

C1_AtMostOneLiveRecord ==
    \A n \in Names :
        OnlyStarts(n) =>
            /\ Cardinality(AliveProcs(n)) <= 1
            /\ ((\A t \in Issued : Returned(t)) /\ AliveProcs(n) # {})
                  => /\ processes[n] # NoRecord
                     /\ processes[n].process \in AliveProcs(n)

\* C2: when processManager.stopProxy has returned success to stopProxy (the
\* call is at its saveProxies), the engine process it stopped has exited.
C2_StopMeansExited ==
    \A t \in Tasks :
        (calls[t].op = "stop" /\ At(t, "stop", "save")) => ~procs[calls[t].proc].alive

\* C3: when the grace timer of a startProxy call fires while the process it
\* spawned is alive, the record of the name holds that process, is promoted
\* to 'running' and the wait succeeds; when the wait ends with the process
\* exited or never spawned, the call fails and no live record remains; no
\* record is 'running' while the call that spawned its process still waits
\* for its grace timer.
GraceSettles(t) == Waiting(t, "pmStart", "grace") /\ t \in Range(ready')

C3_Promoted(t) ==
    LET n == calls[t].name
        p == calls[t].proc
    IN  (GraceSettles(t) /\ p # 0 /\ procs'[p].alive)
            => /\ calls'[t].ret = "ok"
               /\ processes'[n].process = p
               /\ processes'[n].status = "running"

C3_Failed(t) ==
    LET n == calls[t].name
        p == calls[t].proc
    IN  /\ (GraceSettles(t) /\ (p = 0 \/ ~procs'[p].alive)) => calls'[t].ret # "ok"
        /\ (ready # <<>> /\ Head(ready) = t /\ At(t, "pmStart", "grace") /\ calls[t].ret # "ok")
              => /\ processes'[n] = NoRecord
                 /\ calls[t].op = "start" => calls'[t].res = calls[t].ret

C3_NotRunningEarly ==
    \A t \in Tasks :
        (Waiting(t, "pmStart", "grace") /\ calls[t].proc # 0
            /\ processes[calls[t].name].process = calls[t].proc)
          => processes[calls[t].name].status = "starting"

C3_GraceOutcome ==
    /\ []C3_NotRunningEarly
    /\ [][\A t \in Tasks : C3_Promoted(t) /\ C3_Failed(t)]_vars

\* C4: for every registered name getProxyList reports 'stopped' when the
\* supervisor holds no live record and the record's status otherwise, and it
\* lists the registered names and no others.
C4_ListShowsLiveStatus ==
    /\ DOMAIN GetProxyList = {n \in Names : Registered(n)}
    /\ \A n \in DOMAIN GetProxyList :
          GetProxyList[n].status =
              IF processes[n] = NoRecord THEN "stopped" ELSE processes[n].status

\* the engine exited by itself: the stored status is stale, the list is not
C4_Witness ==
    \E n \in Names :
        /\ Registered(n)
        /\ proxies[n].status = "running"
        /\ processes[n] = NoRecord
        /\ GetProxyList[n].status = "stopped"

\* C5: when no registry operation is in flight, the stored descriptor reads
\* 'running' exactly when the supervisor holds a 'running' record of the name.
C5_StoredStatusIsLive ==
    Quiescent =>
        \A n \in Names :
            Registered(n) =>
                (GetProxyDetails(n).config.status = "running"
                    <=> GetProcessStatus(State, n).status = "running")

\* C6: when an updateProxy that stopped a running proxy fails at a later
\* step, the stored descriptor reads 'stopped' and no live record exists.
Completes(t, op) == calls[t].op = op /\ calls[t].res = "" /\ calls'[t].res # ""

C6_FailedUpdateLeavesStopped ==
    [][\A t \in Tasks :
        (Completes(t, "update") /\ calls[t].wasRunning
            /\ calls[t].stk[1].pc # "stop" /\ calls'[t].res # "ok")
          => /\ proxies'[calls[t].name].status = "stopped"
             /\ processes'[calls[t].name] = NoRecord]_vars

\* C7: when updateProxy succeeds on a proxy that was running and the engine
\* process it spawned is alive, the live record holds that process with
\* status 'running', the process read the config this update wrote, and no
\* step of the update changed the descriptor's createdAt.
C7_Restarted(t) ==
    LET n == calls[t].name
        p == calls[t].proc
    IN  (Completes(t, "update") /\ calls'[t].res = "ok" /\ calls[t].wasRunning
            /\ procs'[p].alive)
          => /\ processes'[n].process = p
             /\ processes'[n].status = "running"
             /\ procs'[p].cfg = t
             /\ configs'[n] = t

C7_KeepsCreatedAt(t) ==
    LET n == calls[t].name IN
    (InFlight(t) /\ calls[t].op = "update" /\ Registered(n) /\ proxies'[n] # Absent)
        => proxies'[n].createdAt = proxies[n].createdAt

C7_UpdateRestartsWithNewConfig ==
    [][\A t \in Tasks : C7_Restarted(t) /\ C7_KeepsCreatedAt(t)]_vars

\* C8: stopProxy on a registered name without a live record is rejected with
\* 'not running' at once and changes neither the processes map, nor the
\* descriptors, nor the persisted store; so is every repetition of the call.
C8_StopOfStoppedRejected ==
    [][\A t \in Tasks : \A n \in Names :
        (calls[t].op = "none" /\ calls'[t].op = "stop" /\ calls'[t].name = n
            /\ Registered(n) /\ processes[n] = NoRecord)
          => /\ calls'[t].res = "NotRunning"
             /\ UNCHANGED <<processes, proxies, proxiesFile>>]_vars

\* the call repeated: both rejected
C8_Witness ==
    \E n \in Names :
        /\ Registered(n)
        /\ \A t \in {1, 2} :
              calls[t].op = "stop" /\ calls[t].name = n /\ calls[t].res = "NotRunning"

\* C9: when deleteProxy succeeds, the name is gone from the registry and the
\* persisted store, its config file is removed, and the supervisor holds no
\* live record and no alive engine process of the name.
C9_DeletedMeansGone ==
    [][\A t \in Tasks :
        LET n == calls[t].name IN
        (Completes(t, "delete") /\ calls'[t].res = "ok")
          => /\ proxies'[n] = Absent
             /\ proxiesFile'[n] = Absent
             /\ configs'[n] = NoFile
             /\ processes'[n] = NoRecord
             /\ \A p \in Pids : procs'[p].name = n => ~procs'[p].alive]_vars

\* C10: a startProxy and a stopProxy on one name, both returned: their
\* results, the live record and the stored status are those of one of the
\* two serial orders (from a state without a live record of the name).
SerialOutcome(sr, pr, rec, st) ==
    \/ /\ sr \in {"ok", "WriteError"}          \* start, then stop
       /\ pr \in {"ok", "WriteError"}
       /\ rec = "none" /\ st = "stopped"
    \/ /\ sr \in {"ok", "WriteError"}          \* stop, then start; or the
       /\ pr = "NotRunning"                    \* engine exited in between
       /\ st = "running"
    \/ /\ sr \in {"ProcessStartFailed", "ExitedImmediately"}
       /\ pr = "NotRunning"
       /\ rec = "none" /\ st = "stopped"
    \/ /\ sr = "NotFound" /\ pr = "NotFound"   \* the name is not registered
       /\ rec = "none" /\ st = "absent"

StartStopPair(n) ==
    /\ Issued = {1, 2}
    /\ {calls[1].op, calls[2].op} = {"start", "stop"}
    /\ calls[1].name = n /\ calls[2].name = n
    /\ Returned(1) /\ Returned(2)

ResultOf(op) == IF calls[1].op = op THEN calls[1].res ELSE calls[2].res

C10_StartStopSerializable ==
    \A n \in Names :
        StartStopPair(n) =>
            SerialOutcome(ResultOf("start"), ResultOf("stop"),
                          processes[n].status, proxies[n].status)

\* C11: when every call issued has returned and none of them reported a
\* write error, the persisted store equals the in-memory descriptor map.
C11_StoreEqualsMemory ==
    (Quiescent /\ \A t \in Tasks : calls[t].res # "WriteError")
        => proxiesFile = proxies

\* C12: ProcessManager.restartProxy on a name without a live record fails
\* with 'not running' and spawns nothing; when it succeeds, the process the
\* record held at call time has been stopped, and the live record of the
\* name holds the newly spawned process with status 'running' and the
\* configPath the record held at call time.
PMRestartSucceeds(t) ==
    /\ calls[t].op = "restart"
    /\ Len(calls[t].stk) = 3
    /\ calls'[t].stk = <<[fn |-> "restart", pc |-> "save"]>>

C12_Rejected(t) ==
    \A n \in Names :
        (calls[t].op = "none" /\ calls'[t].op = "restart" /\ calls'[t].name = n
            /\ processes[n] = NoRecord)
          => /\ calls'[t].res = "NotRunning"
             /\ UNCHANGED <<processes, procs>>

C12_Restarted(t) ==
    LET n == calls[t].name
        old == calls[t].processInfo
    IN  PMRestartSucceeds(t)
          => /\ ~procs'[old.process].alive
             /\ calls[t].proc # old.process
             /\ processes'[n].process = calls[t].proc
             /\ processes'[n].status = "running"
             /\ processes'[n].configPath = old.configPath

C12_RestartStopsThenStarts ==
    [][\A t \in Tasks : C12_Rejected(t) /\ C12_Restarted(t)]_vars

\* C13: stopAllProxies takes the names that have a live record when it is
\* called; when the supervisor's stopAllProxies returns, its results hold
\* exactly one entry per such name, in order, an item that failed carries
\* its error and the items after it were still attempted, and none of the
\* names has a live record; the call itself does not throw a stop failure.
PMStopAllReturns(t) ==
    /\ calls[t].op = "stopAll"
    /\ calls[t].stk # <<>>
    /\ calls[t].stk[Len(calls[t].stk)].pc # "save"
    /\ calls'[t].stk = <<[fn |-> "stopAll", pc |-> "save"]>>

C13_NamesTaken(t) ==
    (calls[t].op = "none" /\ calls'[t].op = "stopAll")
      => /\ Range(calls'[t].names) = {n \in Names : processes[n] # NoRecord}
         /\ Len(calls'[t].names) = Cardinality(Range(calls'[t].names))

C13_OneEntryPerName(t) ==
    LET names == calls'[t].names
        results == calls'[t].results
    IN  PMStopAllReturns(t)
          => /\ names = calls[t].names
             /\ Len(results) = Len(names)
             /\ \A i \in 1..Len(names) :
                   /\ results[i].name = names[i]
                   /\ results[i].success <=> results[i].error = ""
                   /\ processes'[names[i]] = NoRecord

C13_NotThrown(t) ==
    (calls[t].op = "stopAll" /\ calls[t].res = "" /\ calls'[t].res # "")
      => /\ calls'[t].res \in {"ok", "WriteError"}
         /\ calls'[t].results = calls[t].results

C13_StopAllReportsEach ==
    [][\A t \in Tasks : C13_NamesTaken(t) /\ C13_OneEntryPerName(t) /\ C13_NotThrown(t)]_vars

\* three names stopped in one call: the second had exited by itself and is
\* reported as failed, the third was attempted after it and stopped
C13_Witness ==
    \E t \in Tasks :
        /\ calls[t].op = "stopAll" /\ calls[t].res = "ok"
        /\ Len(calls[t].results) = 3
        /\ calls[t].results[1].success
        /\ ~calls[t].results[2].success /\ calls[t].results[2].error = "NotRunning"
        /\ calls[t].results[3].success
        /\ \A n \in Names : processes[n] = NoRecord

\* C14: when addProxy(name, d) returns success, getProxyDetails(name) shows
\* the content of d with status 'stopped', and the supervisor holds no live
\* record of the name.
C14_AddThenDetails ==
    [][\A t \in Tasks :
        LET n == calls[t].name IN
        (Completes(t, "add") /\ calls'[t].res = "ok")
          => /\ GetProxyDetails(n)'.config.ver = t
             /\ GetProxyDetails(n)'.config.status = "stopped"
             /\ GetProxyDetails(n)'.processStatus.status = "stopped"
             /\ processes'[n] = NoRecord]_vars

\* a name started, deleted and added again
C14_Witness ==
    \E n \in Names :
        /\ calls[1].op = "start" /\ calls[1].res = "ok"
        /\ calls[2].op = "delete" /\ calls[2].res = "ok"
        /\ calls[3].op = "add" /\ calls[3].res = "ok" /\ calls[3].name = n
        /\ GetProxyDetails(n).config.ver = 3
        /\ GetProxyDetails(n).config.status = "stopped"

\* C15: addProxy on a name that the registry holds is rejected at once (as a
\* duplicate, or as invalid when the descriptor is) and changes neither the stored
\* descriptors, nor the config files, nor the persisted store; the registry
\* lists every name once.
C15_DuplicateRejected ==
    [][\A t \in Tasks : \A n \in Names :
        (calls[t].op = "none" /\ calls'[t].op = "add" /\ calls'[t].name = n
            /\ Registered(n))
          => /\ calls'[t].res \in {"Duplicate", "ValidationError"}
             /\ UNCHANGED <<proxies, configs, proxiesFile>>
             /\ DOMAIN GetProxyList' = {m \in Names : proxies[m] # Absent}]_vars

\* the name was added by the first call and refused to the second
C15_Witness ==
    \E n \in Names :
        /\ calls[1].op = "add" /\ calls[1].name = n /\ calls[1].res = "ok"
        /\ calls[2].op = "add" /\ calls[2].name = n /\ calls[2].res = "Duplicate"
        /\ proxies[n].ver = 1 /\ proxiesFile[n].ver = 1 /\ configs[n] = 1

\* C16: addProxy(n, d); startProxy(n); stopProxy(n) issued one after the
\* other on a fresh name, with no storage failure: the list shows 'stopped'
\* after the add; the start succeeds and the list shows 'running' when the
\* engine it spawned is alive at its return; the stop succeeds and the list
\* shows 'stopped' when that engine has exited on the termination signal.
AddThenStart(n) ==
    /\ calls[1].op = "add" /\ calls[1].name = n /\ calls[1].res = "ok"
    /\ calls[2].op = "start" /\ calls[2].name = n

EngineOf(n) == CHOOSE p \in Pids : procs[p].name = n

C16_AfterAdd(n) ==
    (Completes(1, "add") /\ calls[1].name = n /\ calls'[1].res = "ok")
      => GetProxyList'[n].status = "stopped"

C16_AfterStart(n) ==
    (AddThenStart(n) /\ Completes(2, "start") /\ calls[2].proc # 0
        /\ procs'[calls[2].proc].alive /\ calls'[2].res # "WriteError")
      => /\ calls'[2].res = "ok"
         /\ GetProxyList'[n].status = "running"

C16_AfterStop(n) ==
    (AddThenStart(n) /\ calls[2].res = "ok"
        /\ Completes(3, "stop") /\ calls[3].name = n
        /\ procs'[EngineOf(n)].sig = "SIGTERM" /\ ~procs'[EngineOf(n)].alive
        /\ calls'[3].res # "WriteError")
      => /\ calls'[3].res = "ok"
         /\ GetProxyList'[n].status = "stopped"

C16_AddStartStop ==
    [][\A n \in Names : C16_AfterAdd(n) /\ C16_AfterStart(n) /\ C16_AfterStop(n)]_vars

\* the three calls have succeeded, the engine went down on SIGTERM
C16_Witness ==
    \E n \in Names :
        /\ AddThenStart(n) /\ calls[2].res = "ok"
        /\ calls[3].op = "stop" /\ calls[3].name = n /\ calls[3].res = "ok"
        /\ \E p \in Pids : procs[p].name = n /\ procs[p].sig = "SIGTERM" /\ ~procs[p].alive
        /\ GetProxyList[n].status = "stopped"
        /\ proxiesFile[n].status = "stopped"

\* C17: a step of a startProxy, stopProxy or restartProxy call on name A,
\* and the exit of an engine process of A, leave the live record, the stored
\* descriptor and the engine processes of every other name B as they were;
\* a call on B issued while a call on A waits in its timeout window can
\* complete before that wait ends.
StepOf(n) ==
    \/ \E t \in Tasks :
          /\ calls'[t] # calls[t]
          /\ calls'[t].op \in {"start", "stop", "restart"}
          /\ calls'[t].name = n
    \/ \E p \in Pids : procs'[p] # procs[p] /\ procs'[p].name = n

FrameOf(n) ==
    /\ processes'[n] = processes[n]
    /\ proxies'[n] = proxies[n]
    /\ \A p \in Pids : procs[p].name = n => procs'[p] = procs[p]

C17_OtherNamesUntouched ==
    [][\A a \in Names : \A b \in Names \ {a} : StepOf(a) => FrameOf(b)]_vars

\* stopProxy on a waits for the exit of its engine; startProxy on b, issued
\* after it, has returned with b running
C17_Witness ==
    \E a \in Names : \E b \in Names \ {a} :
        /\ calls[2].op = "stop" /\ calls[2].name = a /\ Waiting(2, "pmStop", "wait")
        /\ calls[3].op = "start" /\ calls[3].name = b /\ calls[3].res = "ok"
        /\ processes[b].status = "running"
        /\ processes[a] # NoRecord

\* C18: when downloadAndInstall has returned a path, the executable,
\* geoip.dat and geosite.dat are present in the install directory; every
\* other outcome is an error.
DlErrors == {"FetchFailed", "NoAsset", "DownloadFailed", "ExtractFailed", "VerifyFailed"}

C18_ReturnedPathIsComplete ==
    (dl.pc = "done" /\ dl.inDownload)
      => /\ dl.res \in {"bin"} \cup DlErrors
         /\ dl.res = "bin" => (install.exe /\ install.geoip /\ install.geosite)

\* C19: when downloadAndInstall gets past its up-to-date test and the cache
\* holds the archive of the release's version, it goes to the extraction
\* without a download and with download progress 100 reported; it extracts
\* from the cached file, and it returns a path only with the executable and
\* both data files present and the completion reported.
C19_AtCacheCheck ==
    (dl.pc = "fetch" /\ dl'.pc \notin {"fetch", "done"}
        /\ install.cache[dl'.version] # "none")
      => /\ dl'.hit
         /\ dl'.pc = "extract"
         /\ dl'.downloads = 0
         /\ install'.cache = install.cache

C19_AfterCacheHit ==
    dl.hit
      => /\ dl.downloads = 0
         /\ <<"download", 100>> \in dl.progress
         /\ dl.extracted \in {"", "cache"}
         /\ dl.pc = "verify" => dl.extracted = "cache"
         /\ (dl.pc = "done" /\ dl.res = "bin")
               => /\ dl.extracted = "cache"
                  /\ install.exe /\ install.geoip /\ install.geosite
                  /\ <<"complete", 100>> \in dl.progress

C19_CachedArchiveIsUsed ==
    /\ []C19_AfterCacheHit
    /\ [][C19_AtCacheCheck]_vars

\* a forced install served from the cache
C19_Witness ==
    /\ dl.op = "download" /\ dl.force /\ dl.hit
    /\ dl.pc = "done" /\ dl.res = "bin"
    /\ dl.downloads = 0 /\ dl.extracted = "cache"
    /\ install.exe /\ install.geoip /\ install.geosite
    /\ install.versionFile = dl.version

\* C20: an ensureXRayAvailable call with autoDownload that found no install
\* ends with downloadAndInstall invoked and with its path or its error; a
\* call that finds an install and is not asked to check updates returns the
\* found path without a release query; a call without autoDownload never
\* downloads, and raises an error when an update is needed.
EnsureEnds == dl.op = "ensure" /\ dl.pc # "done" /\ dl'.pc = "done"

C20_NotInstalled ==
    (EnsureEnds /\ dl'.autoDownload /\ dl'.existingPath = "")
      => /\ dl'.inDownload
         /\ dl'.res \in {"bin"} \cup DlErrors

C20_Installed ==
    (dl'.op = "ensure" /\ dl'.n # dl.n /\ CheckXRayInstalled(install) # ""
        /\ ~dl'.checkUpdates)
      => /\ dl'.pc = "done"
         /\ dl'.res = CheckXRayInstalled(install)
         /\ dl'.queries = 0
         /\ install' = install

C20_NoAutoDownload ==
    (EnsureEnds /\ ~dl'.autoDownload)
      => /\ ~dl'.inDownload /\ dl'.downloads = 0
         /\ install' = install
         /\ dl'.needsUpdate => dl'.res = "NoAutoDownload"

C20_EnsurePolicy ==
    [][C20_NotInstalled /\ C20_Installed /\ C20_NoAutoDownload]_vars

\* ---- C21 ----
\* the field of a version written from the numbers f, a missing field being 0
FieldOf(f, i) == IF i \in DOMAIN f THEN f[i] ELSE 0
Longer(f, g) == IF Len(f) > Len(g) THEN Len(f) ELSE Len(g)
\* f is greater than g at the first field, from the left, where they differ
Greater(f, g) ==
    \E i \in 1..Longer(f, g) :
        /\ FieldOf(f, i) > FieldOf(g, i)
        /\ \A j \in 1..(i - 1) : FieldOf(f, j) = FieldOf(g, j)

V_1_10_0 == <<"1", ".", "1", "0", ".", "0">>
V_1_9_9 == <<"1", ".", "9", ".", "9">>
V_1_2 == <<"1", ".", "2">>
V_1_2_0 == <<"1", ".", "2", ".", "0">>
V_2_0_0 == <<"2", ".", "0", ".", "0">>
V_2_0_0_1 == <<"2", ".", "0", ".", "0", ".", "1">>

\* C21: compareVersions(a, b) is positive, zero or negative as a is greater
\* than, equal to or less than b, field by field from the left with a missing
\* field as 0; (1.10.0, 1.9.9) > 0, (1.2, 1.2.0) = 0, (2.0.0, 2.0.0.1) < 0;
\* and compareVersions(a, b) = -compareVersions(b, a).
C21_CompareVersionsOrder ==
    cmp.called =>
        /\ (cmp.result > 0) <=> Greater(cmp.parts1, cmp.parts2)
        /\ (cmp.result < 0) <=> Greater(cmp.parts2, cmp.parts1)
        /\ (cmp.result = 0) <=>
              (~Greater(cmp.parts1, cmp.parts2) /\ ~Greater(cmp.parts2, cmp.parts1))
        /\ cmp.result = -cmp.reverse
        /\ (cmp.version1 = V_1_10_0 /\ cmp.version2 = V_1_9_9) => cmp.result > 0
        /\ (cmp.version1 = V_1_2 /\ cmp.version2 = V_1_2_0) => cmp.result = 0
        /\ (cmp.version1 = V_2_0_0 /\ cmp.version2 = V_2_0_0_1) => cmp.result < 0

\* compareVersions has been applied to ("1.2", "1.2.0"), whose second
\* argument has a field that the first is missing
C21_Witness == cmp.called /\ cmp.version1 = V_1_2 /\ cmp.version2 = V_1_2_0

\* ---- C22 ----
\* the ids of the entries added for proxyName so far, in the order of the calls
AddedFor(proxyName) ==
    LET IsFor(i) == clock.history[i] = proxyName
    IN  SelectSeq([i \in 1..Len(clock.history) |-> i], IsFor)
IdsOf(entries) == [k \in 1..Len(entries) |-> entries[k].id]
LastOf(seq, n) == SubSeq(seq, Len(seq) - n + 1, Len(seq))
OnlyOneProxy(n) == clock.history = [i \in 1..n |-> "a"]

\* C22: after any sequence of addLog calls every proxy retains at most
\* maxLogsPerProxy entries, and they are the most recently added ones of that
\* proxy in insertion order; adding maxLogsPerProxy + 1 entries for one proxy
\* leaves exactly maxLogsPerProxy, the first one added being absent.
C22_NewestRetainedPerProxy ==
    /\ \A i \in 1..Len(logs) :
          /\ Len(logs[i].entries) <= maxLogsPerProxy
          /\ IdsOf(logs[i].entries) =
                LastOf(AddedFor(logs[i].proxyName), Len(logs[i].entries))
    /\ OnlyOneProxy(maxLogsPerProxy + 1) =>
          /\ Len(logs) = 1
          /\ Len(logs[1].entries) = maxLogsPerProxy
          /\ \A k \in 1..Len(logs[1].entries) : logs[1].entries[k].id # 1

\* one more entry than the cap has been added for one proxy
C22_Witness ==
    /\ OnlyOneProxy(maxLogsPerProxy + 1)
    /\ Len(logs[1].entries) = maxLogsPerProxy

\* ---- C23 ----
Retained == UNION {{logs[i].entries[k] : k \in 1..Len(logs[i].entries)} : i \in 1..Len(logs)}

\* C23: after every addLog the entries retained over all proxies number at
\* most maxTotalLogs, and no entry evicted for the global cap carries a later
\* timestamp than an entry that is retained.
C23_GlobalCapEvictsOldest ==
    /\ TotalLogs(logs) <= maxTotalLogs
    /\ \A e \in clock.evicted : \A r \in Retained : e.timestamp <= r.timestamp

\* ---- C24 ----
Generated == xrayConfig.type # "undefined"
\* the number n and the value v (a number, or a string that spells one) agree
SameNumber(n, v) == v.type # "undefined" /\ v.exact /\ n.exact /\ n.int = v.int

\* C24: for a descriptor of protocol vless, vmess or trojan that passed
\* validation, generateConfig returns a config with exactly one inbound and
\* one outbound, the outbound's protocol being the descriptor's and the
\* inbound's port the descriptor's localPort.
C24_OneInboundOneOutbound ==
    (Generated /\ proxyConfig.protocol \in {"vless", "vmess", "trojan"}) =>
        /\ xrayConfig.type = "object"
        /\ Len(xrayConfig.inbounds) = 1
        /\ Len(xrayConfig.outbounds) = 1
        /\ xrayConfig.outbounds[1].protocol = proxyConfig.protocol
        /\ SameNumber(xrayConfig.inbounds[1].port, proxyConfig.localPort)

\* ---- C25 ----
\* C25: generateConfig(d) leaves its argument d, d.streamSettings included,
\* and all other state unchanged, and on a descriptor that carries a userId
\* what it returns does not depend on anything but the descriptor.
C25_GenerateIsPure ==
    [][Generate =>
         /\ proxyConfig' = proxyConfig
         /\ UNCHANGED <<registryVars, install, dl, logs, validation>>
         /\ ~Falsy(proxyConfig.userId) =>
               \A u1 \in FreshUUIDs, u2 \in FreshUUIDs :
                   generateConfig(proxyConfig, u1).config = generateConfig(proxyConfig, u2).config
      ]_vars

\* ---- C26 ----
\* C26: the TLS settings of a generated config have allowInsecure true only
\* if the descriptor's streamSettings sets allowInsecure to true.
C26_AllowInsecureOnlyIfAsked ==
    (xrayConfig.type = "object"
        /\ xrayConfig.outbounds[1].streamSettings.type = "object"
        /\ xrayConfig.outbounds[1].streamSettings.tlsSettings.type = "object"
        /\ xrayConfig.outbounds[1].streamSettings.tlsSettings.allowInsecure = JsTrue)
    => (proxyConfig.streamSettings.type = "object"
        /\ proxyConfig.streamSettings.allowInsecure = JsTrue)

\* ---- C27 ----
\* a vless or vmess descriptor without a UUID-shaped userId, or a trojan
\* descriptor without a non-empty password
LacksCredentials(d) ==
    \/ d.protocol \in {"vless", "vmess"} /\ d.userId \notin ValidUUIDs
    \/ d.protocol = "trojan" /\ d.password \in {Undefined, ""}

\* C27: the validator of addProxy and updateProxy reports such a descriptor
\* as not valid, and so no engine config is generated for it.
C27_CredentialsRequired ==
    LacksCredentials(proxyConfig) =>
        /\ validation.type = "object" => ~validation.isValid
        /\ ~Generated

\* ---- C28 ----
\* C28: a ProcessManager.startProxy call that is rejected because the config
\* file is missing or because the name already has a live record leaves the
\* processes map as it was: the record of the name is still there, with the
\* same process and status.
C28_RejectedStartKeepsRecord ==
    [][\A t \in Tasks :
         (Waiting(t, "pmStart", "exists")
             /\ calls'[t].res \in {"ConfigMissing", "AlreadyRunning"})
         => processes' = processes
      ]_vars

\* ---- C29 ----
\* C29: when the 5 s timer of stopProxy fires, the process not having exited
\* since SIGTERM was sent, SIGKILL is sent to it before stopProxy goes on.
C29_ForceKillAfterTimeout ==
    [][\A t \in Tasks :
         (StopTimer(t) /\ procs[calls[t].proc].alive)
         => procs'[calls[t].proc].sig = "SIGKILL"
      ]_vars

\* ---- C30 ----
\* C30: the installed-version record is written only once an install has been
\* verified: it changes only in the step in which the verification passes and
\* the call returns the executable's path, so that no step of a call that
\* fails changes it.
C30_VersionWrittenAfterVerify ==
    [][install'.versionFile # install.versionFile
         => (dl.pc = "verify" /\ dl'.pc = "done" /\ dl'.res \notin DlErrors)
      ]_vars

\* ---- C31 ----
\* C31: a file exists under its cache key only when it is a completely
\* downloaded archive: no call whose download is not running finds, at its
\* cache check, the file of a download that is in progress, was interrupted
\* or failed.
C31_CacheHitIsCompleteArchive ==
    (dl.hit /\ dl.pc = "extract") => install.cache[dl.version] # "partial"

\* ---- C32 ----
\* the bounded-retry part: at most maxRetries attempts, retryDelay * attempt
\* between consecutive ones, the error right after the last failed attempt
RelBounded ==
    /\ dl.attempt <= maxRetries
    /\ dl.waits = [i \in 1..Len(dl.waits) |-> retryDelay * i]
    /\ dl.pc \in {"request", "body"} => Len(dl.errors) = dl.attempt - 1
    /\ dl.res = "Failed" <=> Len(dl.errors) = maxRetries

\* C32: getLatestRelease always terminates: every call returns the first
\* successful result or, right after the third failed attempt, raises its
\* error.
C32_GetLatestReleaseTerminates == (dl.pc = "request") ~> (dl.pc = "done")

\* ---- C33 ----
\* C33: when streamSettings gives no serverName and TLS is used, the
\* serverName of the generated tlsSettings is the descriptor's address.
C33_ServerNameDefaultsToAddress ==
    (xrayConfig.type = "object"
        /\ xrayConfig.outbounds[1].streamSettings.type = "object"
        /\ xrayConfig.outbounds[1].streamSettings.tlsSettings.type = "object"
        /\ Falsy(proxyConfig.streamSettings.serverName))
    => xrayConfig.outbounds[1].streamSettings.tlsSettings.serverName = proxyConfig.address

\* ---- C34 ----
\* the call of this step emitted exactly one event, of the given name
EmitsOnce(event) == clock'.events = Append(clock.events, event)

\* C34: clearProxyLogs(proxyName) removes the entries of that proxy and emits
\* 'logsCleared' exactly once, also when the proxy had no entries;
\* clearAllLogs removes all entries and emits 'logsCleared' exactly once;
\* every addLog emits 'newLog' exactly once.
C34_EveryCallNotifies ==
    [][/\ \A proxyName \in LogNames :
            /\ ClearProxyLogs(proxyName) =>
                  (IndexOf(logs', proxyName) = 0 /\ EmitsOnce("logsCleared"))
            /\ (\E elapsed \in {0, 1} : AddLog(proxyName, elapsed)) => EmitsOnce("newLog")
       /\ ClearAllLogs => (logs' = <<>> /\ EmitsOnce("logsCleared"))
      ]_vars

\* ---- C35 ----
\* C35: in every reachable state each engine process that was spawned and is
\* still alive has a live record under its name in the processes map, so
\* getProcessStatus(name) does not report 'stopped' while it runs.
C35_AliveProcessHasRecord ==
    \A p \in Pids :
        procs[p].alive =>
            /\ processes[procs[p].name] # NoRecord
            /\ GetProcessStatus(State, procs[p].name).status # "stopped"

\* ---- C36 ----
\* C36: the exit event of an engine process removes only that process's own
\* record: if the record under its name holds another, newer process, the
\* record stays as it is.
C36_ExitRemovesOwnRecordOnly ==
    [][\A p \in Pids :
         (ProcExit(p)
             /\ processes[procs[p].name] # NoRecord
             /\ processes[procs[p].name].process # p)
         => processes'[procs[p].name] = processes[procs[p].name]
      ]_vars

\* ---- C37 ----
\* the descriptor d is the object some startProxy, stopProxy or restartProxy
\* read from the registry before it waited
Captured(d) ==
    \E t \in Tasks : calls[t].pinfo # Absent /\ calls[t].pinfo.oid = d.oid

ReturnedOk(op, n) ==
    {t \in Tasks : calls[t].op = op /\ calls[t].name = n /\ calls[t].res = "ok"}

\* C37: once deleteProxy(name) or updateProxy(name, d) has returned
\* successfully, no step puts back a descriptor that an operation in flight
\* had read earlier: the deleted name stays absent and the updated descriptor
\* stays in place until a later add, update or delete.
C37_CompletedChangeNotUndone ==
    [][\A n \in Names :
         /\ (ReturnedOk("delete", n) # {} /\ proxies[n] = Absent /\ proxies'[n] # Absent)
               => ~Captured(proxies'[n])
         /\ (proxies[n] # Absent /\ proxies[n].oid \in ReturnedOk("update", n)
                /\ proxies'[n] # Absent /\ proxies'[n].oid # proxies[n].oid)
               => ~Captured(proxies'[n])
      ]_vars

\* ---- C38 ----
\* C38: descriptors stored by a previous session are not lost: the store a
\* mutating call writes still holds every stored descriptor other than the
\* one the call is about, also when the call was issued before loadProxies
\* finished; and loadProxies leaves a descriptor that is already in the
\* registry as it is.
C38_StoredDescriptorsSurvive ==
    [][/\ \A t \in Callers : \A n \in Names :
            (SaveDone(t) /\ proxiesFile[n] # Absent /\ n # calls[t].name)
                => proxiesFile'[n] # Absent
       /\ \A n \in Names :
            (LoadReadDone /\ proxies[n] # Absent) => proxies'[n] = proxies[n]
      ]_vars

\* ---- C39 ----
\* C39: a failed install is recovered by calling again: after a
\* downloadAndInstall that failed in extraction or verification, a caller
\* that keeps re-invoking against a reachable source serving a good archive
\* eventually gets a call that returns the executable's path.
C39_RetryRecovers ==
    (dl.pc = "done" /\ dl.res \in {"ExtractFailed", "VerifyFailed"})
        ~> (dl.pc = "done" /\ dl.res = "bin")

=============================================================================
